---- MODULE Spec2Model ----
(***************************************************************************)
(* Life in Weeks - the desktop front end (dist/app.js) as a state machine. *)
(*                                                                         *)
(* The state is the three module-level variables of app.js together with   *)
(* the parts of the DOM the handlers read and write, and the backend calls *)
(* (invoke) that are in flight.  One action per event handler step: a step *)
(* runs from the event (or the completion of an awaited call) to the next  *)
(* await, as the single-threaded event loop does.                          *)
(*                                                                         *)
(* Text is a sequence of one-character strings, so that parseInt and       *)
(* Number.prototype.toString are computed, not assumed.  A nullable value  *)
(* is a sequence of length at most one: <<>> is null, <<v>> is v.          *)
(*                                                                         *)
(* Spec is the session of the app.  SpecParse, SpecPercent and SpecFormat  *)
(* run the pure functions over their inputs, SpecToast follows the clock   *)
(* of the toast, SpecBurst is a burst of change events, SpecSchedule       *)
(* follows the backend's schedule state, SpecSupport is the support        *)
(* message of the website's download section, and SpecDownloads is the     *)
(* website's lookup of the release assets behind its download links.       *)
(***************************************************************************)
EXTENDS Integers, Sequences, FiniteSets, TLC

\* ------------------------------------------------------------------ bounds
MaxLen == 3            \* longest text typed into a field (SpecParse)
MaxEvents == 3         \* user events (form changes, clicks, toggles) in one session
MaxWeeks == 40         \* largest number of weeks in a response (SpecPercent)
MaxCount == 1100       \* every week count up to this one is formatted (SpecFormat)
MaxDigits == 7         \* longest week count formatted, in digits (SpecFormat)
MaxClicks == 5         \* clicks on download elements in one browser session (SpecSupport)
MaxAssets == 2         \* assets in the answer of the release lookup (SpecDownloads)

\* ------------------------------------------------------------- vocabulary
Modes == {"life", "year-end", "next-months"}
Themes == {"dark", "terminal", "minimal", "sunset"}
Undefined == "undefined"
Null == <<>>
Some(v) == <<v>>

Digits == <<"0", "1", "2", "3", "4", "5", "6", "7", "8", "9">>
HexDigits == Digits \o <<"a", "b", "c", "d", "e", "f">>

\* ------------------------------------------------------- text <-> numbers
\* value of the digit character c in the given radix, or -1
DigitVal(c, radix) ==
    LET ds == IF radix = 16 THEN HexDigits ELSE Digits
        hit == {i \in 1..Len(ds) : ds[i] = c}
    IN  IF hit = {} THEN -1 ELSE (CHOOSE i \in hit : TRUE) - 1

RECURSIVE SkipWhiteSpace(_)
SkipWhiteSpace(s) ==
    IF s # <<>> /\ Head(s) = " " THEN SkipWhiteSpace(Tail(s)) ELSE s

\* the longest prefix of radix digits of s, folded into acc; seen tells
\* whether any digit was consumed
RECURSIVE ParseDigits(_, _, _, _)
ParseDigits(s, radix, acc, seen) ==
    IF s # <<>> /\ DigitVal(Head(s), radix) >= 0
    THEN ParseDigits(Tail(s), radix, acc * radix + DigitVal(Head(s), radix), TRUE)
    ELSE [value |-> acc, seen |-> seen]

\* parseInt(s) with no radix argument: <<>> stands for NaN, <<n>> for n
ParseInt(s) ==
    LET t == SkipWhiteSpace(s)
        neg == t # <<>> /\ Head(t) = "-"
        u == IF t # <<>> /\ Head(t) \in {"-", "+"} THEN Tail(t) ELSE t
        hex == Len(u) >= 2 /\ u[1] = "0" /\ u[2] \in {"x", "X"}
        v == IF hex THEN Tail(Tail(u)) ELSE u
        r == ParseDigits(v, IF hex THEN 16 ELSE 10, 0, FALSE)
    IN  IF ~r.seen THEN <<>>
        ELSE IF neg THEN <<0 - r.value>> ELSE <<r.value>>

\* parseInt(input.value) || null : NaN and 0 are falsy
NumberField(s) ==
    LET p == ParseInt(s)
    IN  IF p = <<>> \/ p[1] = 0 THEN Null ELSE p

\* input.value || null for the date field ("" is falsy)
TextField(s) == IF s = "" THEN Null ELSE Some(s)

\* Number.prototype.toString for an integer
RECURSIVE NatToString(_)
NatToString(n) ==
    IF n < 10 THEN <<Digits[n + 1]>>
    ELSE NatToString(n \div 10) \o <<Digits[(n % 10) + 1]>>

NumToString(n) == IF n < 0 THEN <<"-">> \o NatToString(0 - n) ELSE NatToString(n)

\* num.toString().replace(/\B(?=(\d{3})+(?!\d))/g, ',')
\* a position i (between characters i and i+1) is replaced by a comma when
\* both neighbours are word characters and the rest of the text starts
\* with a positive multiple of three digits not followed by a digit
IsDigit(c) == DigitVal(c, 10) >= 0

\* mutant: the groups of three digits are counted from the left
CommaBeforeFromLeft(s, i) ==
    /\ i >= 2
    /\ IsDigit(s[i - 1]) /\ IsDigit(s[i])
    /\ (i - 1) % 3 = 0

CommaBefore(s, i) ==
    /\ i >= 2
    /\ IsDigit(s[i - 1]) /\ IsDigit(s[i])
    /\ \E k \in 1..Len(s) :
          /\ i + 3 * k - 1 <= Len(s)
          /\ \A j \in i..(i + 3 * k - 1) : IsDigit(s[j])
          /\ (i + 3 * k > Len(s) \/ ~IsDigit(s[i + 3 * k]))

RECURSIVE InsertCommas(_, _)
InsertCommas(s, i) ==
    IF i > Len(s) THEN <<>>
    ELSE (IF CommaBefore(s, i) THEN <<",", s[i]>> ELSE <<s[i]>>) \o InsertCommas(s, i + 1)

formatNumber(num) == InsertCommas(NumToString(num), 1)

\* Math.round(x) for x = p / q with q > 0: the nearest integer, halves up
RoundDiv(p, q) == (2 * p + q) \div (2 * q)

\* mutant: the percent is cut off instead of rounded
PercentTruncated(elapsed, total) ==
    IF total > 0 THEN (elapsed * 100) \div total ELSE 0

\* response.total_weeks > 0 ? Math.round(elapsed / total * 100) : 0
\* in exact arithmetic
Percent(elapsed, total) ==
    IF total > 0 THEN RoundDiv(elapsed * 100, total) ELSE 0

RECURSIVE GCD(_, _)
GCD(a, b) == IF b = 0 THEN a ELSE GCD(b, a % b)

RECURSIVE IsPowerOfTwo(_)
IsPowerOfTwo(n) ==
    IF n = 1 THEN TRUE ELSE IF n % 2 = 1 THEN FALSE ELSE IsPowerOfTwo(n \div 2)

\* elapsed / total * 100 lies exactly half way between two integers
HalfWay(elapsed, total) ==
    /\ (200 * elapsed) % total = 0
    /\ ((200 * elapsed) \div total) % 2 = 1

\* the double elapsed / total is the exact quotient
ExactQuotient(elapsed, total) ==
    IsPowerOfTwo(total \div GCD(elapsed, total))

\* the values Math.round can return for the double product.  The quotient
\* is a double: when it is inexact and the exact product lies half way, the
\* double product may fall just below the half (23 / 40 * 100 is
\* 57.49999999999999, rounded to 57) or on it (rounded up); everywhere
\* else the double product rounds as the exact one does.
PercentValues(elapsed, total) ==
    IF total > 0 /\ HalfWay(elapsed, total) /\ ~ExactQuotient(elapsed, total)
    THEN {Percent(elapsed, total) - 1, Percent(elapsed, total)}
    ELSE {Percent(elapsed, total)}


\* ------------------------------------------------------------------ inputs
\* what the backend may answer to get_config ("" / Undefined: field absent)
Configs ==
    { [dob |-> "1990-05-17", lifespan_years |-> 80, screen_width |-> 1920,
       screen_height |-> 1080, next_months |-> 6, schedule_installed |-> TRUE,
       theme |-> "terminal", default_mode |-> "life"],
      [dob |-> "", lifespan_years |-> 90, screen_width |-> 1920,
       screen_height |-> 1080, next_months |-> 12, schedule_installed |-> FALSE,
       theme |-> Undefined, default_mode |-> ""] }

\* what the backend may answer to generate_preview
Responses ==
    { [image_base64 |-> "iVBORw0A", title |-> "Year End", subtitle |-> "2026",
       elapsed_weeks |-> 1000, remaining_weeks |-> 3160, total_weeks |-> 4160],
      [image_base64 |-> "iVBORw0B", title |-> "Life in Weeks", subtitle |-> "80 years",
       elapsed_weeks |-> 1300, remaining_weeks |-> 2860, total_weeks |-> 4160] }

\* what the backend may answer in SpecPercent: every pair of week counts up to MaxWeeks,
\* and the answers of Responses
PercentResponses ==
    Responses \cup
    { [image_base64 |-> "iVBORw0A", title |-> "Life in Weeks", subtitle |-> "",
       elapsed_weeks |-> e,
       remaining_weeks |-> IF t >= e THEN t - e ELSE 0,
       total_weeks |-> t] : e \in 0..MaxWeeks, t \in 0..MaxWeeks }

RECURSIVE Pow10(_)
Pow10(k) == IF k = 0 THEN 1 ELSE 10 * Pow10(k - 1)

\* the number written 1, 12, 123, ... with k digits
RECURSIVE Counting(_)
Counting(k) == IF k = 0 THEN 0 ELSE 10 * Counting(k - 1) + k

\* the week counts formatted in SpecFormat: every count up to MaxCount, and
\* for every length up to MaxDigits the smallest and the largest number of
\* that length, their neighbours, and one with all digits different
FormatNumbers ==
    (0..MaxCount)
    \cup {Pow10(k) - 1 : k \in 1..MaxDigits}
    \cup {Pow10(k - 1) : k \in 1..MaxDigits}
    \cup {Pow10(k - 1) + 1 : k \in 1..MaxDigits}
    \cup {Counting(k) : k \in 1..MaxDigits}

\* what the backend may answer in SpecFormat: nothing elapsed, n weeks remaining
FormatResponses ==
    { [image_base64 |-> "iVBORw0A", title |-> "Life in Weeks", subtitle |-> "",
       elapsed_weeks |-> 0, remaining_weeks |-> n, total_weeks |-> n] :
         n \in FormatNumbers }

\* the rejection values of invoke, by command
Errors(command) == {command \o " failed"}

\* the confirmation message the backend returns from toggle_schedule
ScheduleMessage(enabled) ==
    IF enabled THEN "Weekly schedule installed" ELSE "Weekly schedule removed"

\* window.screen and window.devicePixelRatio (the ratio in quarters)
Screens == { [width |-> 1366, height |-> 768, ratio4 |-> 5] }

\* what the user may type into a field
FieldNames == {"dob", "lifespan", "months", "width", "height"}
EditValues(f) ==
    IF f = "dob" THEN {"1985-03-20"} ELSE {<<"4", "2">>}

\* ------------------------------------------------------------------- state
VARIABLES
    currentMode, currentTheme, hasPreview,   \* app.js module state
    modeTabs, themeBtns,                     \* tabs / buttons of class active
    inputs,                                  \* values of the five form inputs
    scheduleToggle,                          \* checked
    generateBtn, setWallpaperBtn,            \* [loading, disabled]
    preview,                                 \* image, title, subtitle, stats
    lifeOnlyHidden, monthsOnlyHidden,        \* class hidden of the field groups
    toast,                                   \* the toast: text, type, class show
    initPhase,                               \* "loading": init awaits get_config
    previewCalls, wallpaperCalls, scheduleCalls,  \* invoke calls in flight
    previewSucceeded,                        \* history: a preview has resolved
    loadedConfig,                            \* history: the config received
    origin,                                  \* history: who set each field last
    touched,                                 \* history: the user changed the form
    nEvents,                                 \* history: number of user events
    arrival,                                 \* history: the last response displayed
    console,                                 \* the labels the last step gave console.error
    now, timers, shownAt,                    \* the clock and the pending timeouts
    installed,                               \* history: the backend's schedule state
    website                                  \* the website: session storage, timeouts, page

vars == <<currentMode, currentTheme, hasPreview, modeTabs, themeBtns, inputs,
          scheduleToggle, generateBtn, setWallpaperBtn, preview,
          lifeOnlyHidden, monthsOnlyHidden, toast, initPhase,
          previewCalls, wallpaperCalls, scheduleCalls,
          previewSucceeded, loadedConfig, origin, touched, nEvents,
          arrival, console, now, timers, shownAt, installed, website>>

\* the preview area before any preview was generated
NoPreview ==
    [src |-> "", imageHidden |-> TRUE, placeholderHidden |-> FALSE,
     title |-> "", subtitle |-> "",
     statElapsed |-> <<>>, statRemaining |-> <<>>, statPercent |-> <<>>]

\* the page as its markup gives it.  The markup is not part of the sources:
\* the default tab and theme button are active, the inputs are empty, the
\* apply button is disabled, the toast is hidden; which of the two field
\* groups carry the class hidden is left open.
Markup ==
    /\ modeTabs = {"year-end"}
    /\ themeBtns = {"dark"}
    /\ inputs = [dob |-> "", lifespan |-> <<>>, months |-> <<>>,
                 width |-> <<>>, height |-> <<>>]
    /\ scheduleToggle = FALSE
    /\ generateBtn = [loading |-> FALSE, disabled |-> FALSE]
    /\ setWallpaperBtn = [loading |-> FALSE, disabled |-> TRUE]
    /\ preview = NoPreview
    /\ lifeOnlyHidden \in BOOLEAN
    /\ monthsOnlyHidden \in BOOLEAN
    /\ toast = [message |-> "", type |-> "", show |-> FALSE]

\* Spec and SpecParse do not follow the clock: a timeout set by showToast may
\* fire at any moment while the toast is shown (ToastTimeout).  SpecToast
\* follows it.
Untimed ==
    /\ now = 0
    /\ timers = {}
    /\ shownAt = 0

\* the website before it is opened: nothing stored, no timeout pending, no
\* support message in the page
NoPage ==
    [supportShown |-> FALSE, downloads |-> 0, messages |-> <<>>,
     added |-> 0, clicks |-> 0]

\* the specifications of the app other than SpecSchedule do not follow the
\* backend's schedule state, and only SpecSupport follows the website
NotFollowed ==
    /\ installed = FALSE
    /\ website = NoPage

\* the module-level declarations, and init() run up to its await of
\* get_config: the listeners are installed, the call is in flight
AppStart ==
    /\ currentMode = "year-end"
    /\ currentTheme = "dark"
    /\ hasPreview = FALSE
    /\ Markup
    /\ initPhase = "loading"
    /\ previewCalls = <<>>
    /\ wallpaperCalls = <<>>
    /\ scheduleCalls = <<>>
    /\ previewSucceeded = FALSE
    /\ loadedConfig = <<>>
    /\ touched = FALSE
    /\ origin = [f \in FieldNames |-> "none"]
    /\ nEvents = 0
    /\ arrival = <<>>
    /\ console = <<>>
    /\ Untimed

Init ==
    /\ AppStart
    /\ NotFollowed

\* ----------------------------------------------------------------- helpers
RemoveAt(s, i) == SubSeq(s, 1, i - 1) \o SubSeq(s, i + 1, Len(s))

\* showToast(message, type): the text and the class; the 3000 ms timeout it
\* sets is the step ToastTimeout
showToast(message, type) ==
    toast' = [message |-> message, type |-> type, show |-> TRUE]

\* a timeout set by showToast fires: classList.remove('show').  While the
\* toast is shown the timeout of the last showToast is pending; a timeout
\* that fires when the toast is not shown changes nothing.
ToastTimeout ==
    /\ toast.show
    /\ toast' = [toast EXCEPT !.show = FALSE]
    /\ console' = <<>>
    /\ UNCHANGED <<currentMode, currentTheme, hasPreview, modeTabs, themeBtns,
                   inputs, scheduleToggle, generateBtn, setWallpaperBtn, preview,
                   lifeOnlyHidden, monthsOnlyHidden, initPhase,
                   previewCalls, wallpaperCalls, scheduleCalls,
                   previewSucceeded, loadedConfig, origin, touched, nEvents,
                   arrival, now, timers, shownAt, installed, website>>

\* mutant: the months-only group is toggled with isLifeMode as well
updateModeVisibilityBothLife(mode) ==
    /\ lifeOnlyHidden' = ~(mode = "life")
    /\ monthsOnlyHidden' = ~(mode = "life")

\* updateModeVisibility() when currentMode is mode
updateModeVisibility(mode) ==
    /\ lifeOnlyHidden' = ~(mode = "life")
    /\ monthsOnlyHidden' = ~(mode = "next-months")

\* buildRequest() reading the given mode, theme and input values
buildRequest(mode, theme, in) ==
    [mode |-> mode,
     dob |-> TextField(in.dob),
     lifespan |-> NumberField(in.lifespan),
     months |-> NumberField(in.months),
     theme |-> theme,
     width |-> NumberField(in.width),
     height |-> NumberField(in.height)]

\* the argument of invoke('save_config', ...)
saveConfigArgs(mode, theme, in) ==
    [dob |-> TextField(in.dob),
     lifespan |-> NumberField(in.lifespan),
     theme |-> theme,
     width |-> NumberField(in.width),
     height |-> NumberField(in.height),
     defaultMode |-> mode,
     months |-> NumberField(in.months)]

\* Math.round(window.screen.width * window.devicePixelRatio)
DetectedWidth(scr) == RoundDiv(scr.width * scr.ratio4, 4)
DetectedHeight(scr) == RoundDiv(scr.height * scr.ratio4, 4)

\* what the preview looked like when a generate_preview call was issued
PreviewSnapshot ==
    [preview |-> preview, hasPreview |-> hasPreview,
     applyDisabled |-> setWallpaperBtn.disabled]

\* generatePreview() up to its await: the button, the request, the call
generatePreviewBegin(in, org) ==
    /\ generateBtn' = [loading |-> TRUE, disabled |-> TRUE]
    /\ previewCalls' = Append(previewCalls,
          [request |-> buildRequest(currentMode, currentTheme, in),
           snap |-> PreviewSnapshot,
           ready |-> (initPhase = "ready"),
           origin |-> org,
           overtaken |-> FALSE])

\* ------------------------------------------------------- local selections
\* mutant: the requests in flight read the mode when they are sent on, so a
\* mode selection alters them
SelectModeAltersRequests(m) ==
    /\ modeTabs' = {m}
    /\ currentMode' = m
    /\ updateModeVisibility(m)
    /\ nEvents < MaxEvents
    /\ nEvents' = nEvents + 1
    /\ touched' = TRUE
    /\ console' = <<>>
    /\ previewCalls' = [k \in DOMAIN previewCalls |->
                           [previewCalls[k] EXCEPT !.request.mode = m]]
    /\ wallpaperCalls' = [k \in DOMAIN wallpaperCalls |->
                           [wallpaperCalls[k] EXCEPT !.request.mode = m]]
    /\ UNCHANGED <<currentTheme, hasPreview, themeBtns, inputs, scheduleToggle,
                   generateBtn, setWallpaperBtn, preview, toast,
                   initPhase, scheduleCalls,
                   previewSucceeded, loadedConfig, origin,
                   arrival, now, timers, shownAt, installed, website>>

\* click on the mode tab of mode m
SelectMode(m) ==
    /\ modeTabs' = {m}
    /\ currentMode' = m
    /\ updateModeVisibility(m)
    /\ nEvents < MaxEvents
    /\ nEvents' = nEvents + 1
    /\ touched' = TRUE
    /\ console' = <<>>
    /\ UNCHANGED <<currentTheme, hasPreview, themeBtns, inputs, scheduleToggle,
                   generateBtn, setWallpaperBtn, preview, toast,
                   initPhase, previewCalls, wallpaperCalls, scheduleCalls,
                   previewSucceeded, loadedConfig, origin,
                   arrival, now, timers, shownAt, installed, website>>

\* mutant: the theme listener regenerates the preview once there is one, as
\* the change listeners of the inputs do
SelectThemeRegenerates(t) ==
    /\ themeBtns' = {t}
    /\ currentTheme' = t
    /\ nEvents < MaxEvents
    /\ nEvents' = nEvents + 1
    /\ touched' = TRUE
    /\ console' = <<>>
    /\ IF hasPreview
       THEN /\ generateBtn' = [loading |-> TRUE, disabled |-> TRUE]
            /\ previewCalls' = Append(previewCalls,
                  [request |-> buildRequest(currentMode, t, inputs),
                   snap |-> PreviewSnapshot,
                   ready |-> (initPhase = "ready"),
                   origin |-> origin,
                   overtaken |-> FALSE])
       ELSE UNCHANGED <<generateBtn, previewCalls>>
    /\ UNCHANGED <<currentMode, hasPreview, modeTabs, inputs, scheduleToggle,
                   setWallpaperBtn, preview, lifeOnlyHidden,
                   monthsOnlyHidden, toast, initPhase,
                   wallpaperCalls, scheduleCalls,
                   previewSucceeded, loadedConfig, origin,
                   arrival, now, timers, shownAt, installed, website>>

\* click on the theme button of theme t
SelectTheme(t) ==
    /\ themeBtns' = {t}
    /\ currentTheme' = t
    /\ nEvents < MaxEvents
    /\ nEvents' = nEvents + 1
    /\ touched' = TRUE
    /\ console' = <<>>
    /\ UNCHANGED <<currentMode, hasPreview, modeTabs, inputs, scheduleToggle,
                   generateBtn, setWallpaperBtn, preview, lifeOnlyHidden,
                   monthsOnlyHidden, toast, initPhase,
                   previewCalls, wallpaperCalls, scheduleCalls,
                   previewSucceeded, loadedConfig, origin,
                   arrival, now, timers, shownAt, installed, website>>

\* mutant: the change listeners regenerate the preview whether or not there
\* is one
EditFieldAlwaysGenerates(f, v) ==
    /\ nEvents < MaxEvents
    /\ v # inputs[f]
    /\ nEvents' = nEvents + 1
    /\ touched' = TRUE
    /\ inputs' = [inputs EXCEPT ![f] = v]
    /\ origin' = [origin EXCEPT ![f] = "user"]
    /\ IF f \in {"dob", "lifespan", "months"}
       THEN generatePreviewBegin(inputs', origin')
       ELSE UNCHANGED <<generateBtn, previewCalls>>
    /\ console' = <<>>
    /\ UNCHANGED <<currentMode, currentTheme, hasPreview, modeTabs, themeBtns,
                   scheduleToggle, setWallpaperBtn, preview, lifeOnlyHidden,
                   monthsOnlyHidden, toast, initPhase,
                   wallpaperCalls, scheduleCalls, previewSucceeded, loadedConfig,
                   arrival, now, timers, shownAt, installed, website>>

\* the user commits a new value v in field f; the change listener of the
\* dob, lifespan and months inputs regenerates the preview once there is one
EditField(f, v) ==
    /\ nEvents < MaxEvents
    /\ v # inputs[f]
    /\ nEvents' = nEvents + 1
    /\ touched' = TRUE
    /\ inputs' = [inputs EXCEPT ![f] = v]
    /\ origin' = [origin EXCEPT ![f] = "user"]
    /\ IF f \in {"dob", "lifespan", "months"} /\ hasPreview
       THEN generatePreviewBegin(inputs', origin')
       ELSE UNCHANGED <<generateBtn, previewCalls>>
    /\ console' = <<>>
    /\ UNCHANGED <<currentMode, currentTheme, hasPreview, modeTabs, themeBtns,
                   scheduleToggle, setWallpaperBtn, preview, lifeOnlyHidden,
                   monthsOnlyHidden, toast, initPhase,
                   wallpaperCalls, scheduleCalls, previewSucceeded, loadedConfig,
                   arrival, now, timers, shownAt, installed, website>>

\* detectScreenResolution() run on input values in: both size inputs are
\* overwritten and a toast is shown
detectScreenResolution(in, org, scr, who) ==
    /\ inputs' = [in EXCEPT !.width = NumToString(DetectedWidth(scr)),
                            !.height = NumToString(DetectedHeight(scr))]
    /\ origin' = [org EXCEPT !.width = who, !.height = who]
    /\ showToast("Screen resolution detected", "success")

\* the click listener of the detect-resolution button
detectClicked ==
    /\ \E scr \in Screens : detectScreenResolution(inputs, origin, scr, "user")
    /\ nEvents < MaxEvents
    /\ nEvents' = nEvents + 1
    /\ touched' = TRUE
    /\ console' = <<>>
    /\ UNCHANGED <<currentMode, currentTheme, hasPreview, modeTabs, themeBtns,
                   scheduleToggle, generateBtn, setWallpaperBtn, preview,
                   lifeOnlyHidden, monthsOnlyHidden, initPhase,
                   previewCalls, wallpaperCalls, scheduleCalls,
                   previewSucceeded, loadedConfig, arrival,
                   installed, website>>

\* click on the detect-resolution button
DetectClick ==
    /\ detectClicked
    /\ UNCHANGED <<now, timers, shownAt, installed, website>>

\* ------------------------------------------------------------------ startup
\* init() after loadConfig() has returned: visibility, then detection
initTail(mode, in, org) ==
    /\ initPhase' = "ready"
    /\ updateModeVisibility(mode)
    /\ \E scr \in Screens : detectScreenResolution(in, org, scr, "auto")

\* the input values after loadConfig() has copied the config into them
configInputs(config) ==
    [dob |-> IF config.dob # "" THEN config.dob ELSE inputs.dob,
     lifespan |-> NumToString(config.lifespan_years),
     months |-> NumToString(config.next_months),
     width |-> NumToString(config.screen_width),
     height |-> NumToString(config.screen_height)]

configOrigin(config) ==
    [f \in FieldNames |->
        IF f = "dob" /\ config.dob = "" THEN origin[f] ELSE "config"]

\* get_config resolves: loadConfig() applies the config and init() goes on
\* to updateModeVisibility() and detectScreenResolution()
LoadConfigResolve(config) ==
    /\ initPhase = "loading"
    /\ loadedConfig' = Some(config)
    /\ scheduleToggle' = config.schedule_installed
    /\ currentTheme' = config.theme
    /\ themeBtns' = {t \in Themes : t = config.theme}
    /\ currentMode' = IF config.default_mode # "" THEN config.default_mode
                      ELSE currentMode
    /\ modeTabs' = IF config.default_mode # ""
                   THEN {m \in Modes : m = config.default_mode} ELSE modeTabs
    /\ initTail(currentMode', configInputs(config), configOrigin(config))
    /\ console' = <<>>
    /\ UNCHANGED <<hasPreview, generateBtn, setWallpaperBtn, preview,
                   previewCalls, wallpaperCalls, scheduleCalls,
                   previewSucceeded, touched, nEvents,
                   arrival, now, timers, shownAt, installed, website>>

\* mutant: loadConfig() without its try/catch; the rejection leaves init()
LoadConfigRejectUncaught ==
    /\ initPhase = "loading"
    /\ initPhase' = "failed"
    /\ console' = <<>>
    /\ UNCHANGED <<currentMode, currentTheme, hasPreview, modeTabs, themeBtns,
                   inputs, scheduleToggle, generateBtn, setWallpaperBtn, preview,
                   lifeOnlyHidden, monthsOnlyHidden, toast,
                   previewCalls, wallpaperCalls, scheduleCalls,
                   previewSucceeded, loadedConfig, origin, touched, nEvents,
                   arrival, now, timers, shownAt, installed, website>>

\* get_config rejects: loadConfig() logs, init() goes on with what is there
LoadConfigReject ==
    /\ initPhase = "loading"
    /\ initTail(currentMode, inputs, origin)
    /\ console' = <<>>
    /\ UNCHANGED <<currentMode, currentTheme, hasPreview, modeTabs, themeBtns,
                   scheduleToggle, generateBtn, setWallpaperBtn, preview,
                   previewCalls, wallpaperCalls, scheduleCalls,
                   previewSucceeded, loadedConfig, touched, nEvents,
                   arrival, now, timers, shownAt, installed, website>>

\* ------------------------------------------------------------------ preview
\* click on the generate button (a disabled button gets no click)
GenerateClick ==
    /\ ~generateBtn.disabled
    /\ nEvents < MaxEvents
    /\ nEvents' = nEvents + 1
    /\ generatePreviewBegin(inputs, origin)
    /\ console' = <<>>
    /\ UNCHANGED <<currentMode, currentTheme, hasPreview, modeTabs, themeBtns,
                   inputs, scheduleToggle, setWallpaperBtn, preview,
                   lifeOnlyHidden, monthsOnlyHidden, toast, initPhase,
                   wallpaperCalls, scheduleCalls,
                   previewSucceeded, loadedConfig, origin, touched,
                   arrival, now, timers, shownAt, installed, website>>

\* the preview as generatePreview() displays the response, percent being
\* the value it computed
displayed(response, percent) ==
    [src |-> "data:image/png;base64," \o response.image_base64,
     imageHidden |-> FALSE, placeholderHidden |-> TRUE,
     title |-> response.title, subtitle |-> response.subtitle,
     statElapsed |-> formatNumber(response.elapsed_weeks),
     statRemaining |-> formatNumber(response.remaining_weeks),
     statPercent |-> NumToString(percent) \o <<"%">>]

\* mutant: generatePreview() without its finally block
generateFinallyMissing == generateBtn' = generateBtn

\* the finally block of generatePreview()
generateFinally == generateBtn' = [loading |-> FALSE, disabled |-> FALSE]

\* the values of displayed, computed once for every response
Displays ==
    [response \in PercentResponses \cup FormatResponses |->
        {displayed(response, percent) :
            percent \in PercentValues(response.elapsed_weeks, response.total_weeks)}]

\* history: the calls triggered before the i-th have been overtaken by it
overtake(calls, i) ==
    [k \in DOMAIN calls |->
        IF k < i THEN [calls[k] EXCEPT !.overtaken = TRUE] ELSE calls[k]]

\* mutant: a response to a call that a later call has overtaken is dropped
GeneratePreviewResolveDropsStale(i, response) ==
    /\ i \in 1..Len(previewCalls)
    /\ previewCalls' = RemoveAt(overtake(previewCalls, i), i)
    /\ arrival' = Some([response |-> response,
                         overtaken |-> previewCalls[i].overtaken])
    /\ IF previewCalls[i].overtaken
       THEN preview' = preview
       ELSE \E percent \in PercentValues(response.elapsed_weeks, response.total_weeks) :
               preview' = displayed(response, percent)
    /\ setWallpaperBtn' = [setWallpaperBtn EXCEPT !.disabled = FALSE]
    /\ hasPreview' = TRUE
    /\ previewSucceeded' = TRUE
    /\ showToast("Preview generated!", "success")
    /\ generateFinally
    /\ console' = <<>>
    /\ UNCHANGED <<currentMode, currentTheme, modeTabs, themeBtns, inputs,
                   scheduleToggle, lifeOnlyHidden, monthsOnlyHidden, initPhase,
                   wallpaperCalls, scheduleCalls, loadedConfig, origin, touched,
                   nEvents, now, timers, shownAt, installed, website>>

\* the i-th generate_preview call in flight resolves with response
GeneratePreviewResolve(i, response) ==
    /\ i \in 1..Len(previewCalls)
    /\ previewCalls' = RemoveAt(overtake(previewCalls, i), i)
    /\ arrival' = Some([response |-> response,
                         overtaken |-> previewCalls[i].overtaken])
    /\ preview' \in Displays[response]
    /\ setWallpaperBtn' = [setWallpaperBtn EXCEPT !.disabled = FALSE]
    /\ hasPreview' = TRUE
    /\ previewSucceeded' = TRUE
    /\ showToast("Preview generated!", "success")
    /\ generateFinally
    /\ console' = <<>>
    /\ UNCHANGED <<currentMode, currentTheme, modeTabs, themeBtns, inputs,
                   scheduleToggle, lifeOnlyHidden, monthsOnlyHidden, initPhase,
                   wallpaperCalls, scheduleCalls, loadedConfig, origin, touched,
                   nEvents,
                   now, timers, shownAt, installed, website>>

\* mutants of the rejection path of generatePreview(): the catch block
\* leaving hasPreview, the preview and the apply button as given
previewRejectedWith(i, error, hp, pv, btn) ==
    /\ i \in 1..Len(previewCalls)
    /\ previewCalls' = RemoveAt(previewCalls, i)
    /\ showToast("Error: " \o error, "error")
    /\ generateFinally
    /\ hasPreview' = hp
    /\ preview' = pv
    /\ setWallpaperBtn' = btn
    /\ console' = <<"Generate preview error:">>
    /\ UNCHANGED <<currentMode, currentTheme, modeTabs, themeBtns,
                   inputs, scheduleToggle,
                   lifeOnlyHidden, monthsOnlyHidden, initPhase,
                   wallpaperCalls, scheduleCalls,
                   previewSucceeded, loadedConfig, origin, touched, nEvents,
                   arrival, now, timers, shownAt, installed, website>>

\* mutant: the apply button is released in the finally block
GeneratePreviewRejectEnablesApply(i, error) ==
    previewRejectedWith(i, error, hasPreview, preview,
                        [setWallpaperBtn EXCEPT !.disabled = FALSE])

\* mutant: hasPreview is set in the finally block
GeneratePreviewRejectSetsHasPreview(i, error) ==
    previewRejectedWith(i, error, TRUE, preview, setWallpaperBtn)

\* mutant: the catch block resets hasPreview
GeneratePreviewRejectResetsHasPreview(i, error) ==
    previewRejectedWith(i, error, FALSE, preview, setWallpaperBtn)

\* mutant: the catch block puts the placeholder back
GeneratePreviewRejectClearsPreview(i, error) ==
    previewRejectedWith(i, error, hasPreview, NoPreview, setWallpaperBtn)

\* mutant: the catch block calls generatePreview() again
GeneratePreviewRejectRetries(i, error) ==
    /\ i \in 1..Len(previewCalls)
    /\ previewCalls' = Append(RemoveAt(previewCalls, i),
          [request |-> buildRequest(currentMode, currentTheme, inputs),
           snap |-> PreviewSnapshot,
           ready |-> (initPhase = "ready"),
           origin |-> origin,
           overtaken |-> FALSE])
    /\ showToast("Error: " \o error, "error")
    /\ generateFinally
    /\ console' = <<"Generate preview error:">>
    /\ UNCHANGED <<currentMode, currentTheme, hasPreview, modeTabs, themeBtns,
                   inputs, scheduleToggle, setWallpaperBtn, preview,
                   lifeOnlyHidden, monthsOnlyHidden, initPhase,
                   wallpaperCalls, scheduleCalls,
                   previewSucceeded, loadedConfig, origin, touched, nEvents,
                   arrival, now, timers, shownAt, installed, website>>

\* the i-th generate_preview call in flight rejects with error
GeneratePreviewReject(i, error) ==
    /\ i \in 1..Len(previewCalls)
    /\ previewCalls' = RemoveAt(previewCalls, i)
    /\ showToast("Error: " \o error, "error")
    /\ generateFinally
    /\ console' = <<"Generate preview error:">>
    /\ UNCHANGED <<currentMode, currentTheme, hasPreview, modeTabs, themeBtns,
                   inputs, scheduleToggle, setWallpaperBtn, preview,
                   lifeOnlyHidden, monthsOnlyHidden, initPhase,
                   wallpaperCalls, scheduleCalls,
                   previewSucceeded, loadedConfig, origin, touched, nEvents,
                   arrival, now, timers, shownAt, installed, website>>

\* ---------------------------------------------------------------- wallpaper
\* the finally block of setWallpaper()
wallpaperFinally == setWallpaperBtn' = [loading |-> FALSE, disabled |-> FALSE]

\* click on the set-wallpaper button (a disabled button gets no click)
SetWallpaperClick ==
    /\ ~setWallpaperBtn.disabled
    /\ nEvents < MaxEvents
    /\ nEvents' = nEvents + 1
    /\ setWallpaperBtn' = [loading |-> TRUE, disabled |-> TRUE]
    /\ wallpaperCalls' = Append(wallpaperCalls,
          [request |-> buildRequest(currentMode, currentTheme, inputs),
           phase |-> "set_wallpaper_cmd",
           saved |-> <<>>,
           ready |-> (initPhase = "ready"),
           origin |-> origin])
    /\ console' = <<>>
    /\ UNCHANGED <<currentMode, currentTheme, hasPreview, modeTabs, themeBtns,
                   inputs, scheduleToggle, generateBtn, preview,
                   lifeOnlyHidden, monthsOnlyHidden, toast, initPhase,
                   previewCalls, scheduleCalls,
                   previewSucceeded, loadedConfig, origin, touched,
                   arrival, now, timers, shownAt, installed, website>>

\* mutant: the success toast is shown before saveConfig() is awaited, and
\* again after it
SetWallpaperResolveNotifies(i) ==
    /\ i \in 1..Len(wallpaperCalls)
    /\ wallpaperCalls[i].phase = "set_wallpaper_cmd"
    /\ wallpaperCalls' = [wallpaperCalls EXCEPT
          ![i].phase = "save_config",
          ![i].saved = Some(saveConfigArgs(currentMode, currentTheme, inputs))]
    /\ showToast("Wallpaper set successfully!", "success")
    /\ console' = <<>>
    /\ UNCHANGED <<currentMode, currentTheme, hasPreview, modeTabs, themeBtns,
                   inputs, scheduleToggle, generateBtn, setWallpaperBtn, preview,
                   lifeOnlyHidden, monthsOnlyHidden, initPhase,
                   previewCalls, scheduleCalls,
                   previewSucceeded, loadedConfig, origin, touched, nEvents,
                   arrival, now, timers, shownAt, installed, website>>

\* set_wallpaper_cmd resolves: setWallpaper() calls saveConfig(), which
\* invokes save_config with the state of that moment and is awaited
SetWallpaperResolve(i) ==
    /\ i \in 1..Len(wallpaperCalls)
    /\ wallpaperCalls[i].phase = "set_wallpaper_cmd"
    /\ wallpaperCalls' = [wallpaperCalls EXCEPT
          ![i].phase = "save_config",
          ![i].saved = Some(saveConfigArgs(currentMode, currentTheme, inputs))]
    /\ console' = <<>>
    /\ UNCHANGED <<currentMode, currentTheme, hasPreview, modeTabs, themeBtns,
                   inputs, scheduleToggle, generateBtn, setWallpaperBtn, preview,
                   lifeOnlyHidden, monthsOnlyHidden, toast, initPhase,
                   previewCalls, scheduleCalls,
                   previewSucceeded, loadedConfig, origin, touched, nEvents,
                   arrival, now, timers, shownAt, installed, website>>

\* mutant: setWallpaper() without its try/catch/finally; the rejection
\* leaves the handler at the await
SetWallpaperRejectUncaught(i, error) ==
    /\ i \in 1..Len(wallpaperCalls)
    /\ wallpaperCalls[i].phase = "set_wallpaper_cmd"
    /\ wallpaperCalls' = RemoveAt(wallpaperCalls, i)
    /\ console' = <<>>
    /\ UNCHANGED <<currentMode, currentTheme, hasPreview, modeTabs, themeBtns,
                   inputs, scheduleToggle, generateBtn, setWallpaperBtn, preview,
                   lifeOnlyHidden, monthsOnlyHidden, toast, initPhase,
                   previewCalls, scheduleCalls,
                   previewSucceeded, loadedConfig, origin, touched, nEvents,
                   arrival, now, timers, shownAt, installed, website>>

\* set_wallpaper_cmd rejects: error toast, button released
SetWallpaperReject(i, error) ==
    /\ i \in 1..Len(wallpaperCalls)
    /\ wallpaperCalls[i].phase = "set_wallpaper_cmd"
    /\ wallpaperCalls' = RemoveAt(wallpaperCalls, i)
    /\ showToast("Error: " \o error, "error")
    /\ wallpaperFinally
    /\ console' = <<"Set wallpaper error:">>
    /\ UNCHANGED <<currentMode, currentTheme, hasPreview, modeTabs, themeBtns,
                   inputs, scheduleToggle, generateBtn, preview,
                   lifeOnlyHidden, monthsOnlyHidden, initPhase,
                   previewCalls, scheduleCalls,
                   previewSucceeded, loadedConfig, origin, touched, nEvents,
                   arrival, now, timers, shownAt, installed, website>>

\* saveConfig() has returned to setWallpaper(): success toast, button released
wallpaperDone(i, logged) ==
    /\ i \in 1..Len(wallpaperCalls)
    /\ wallpaperCalls[i].phase = "save_config"
    /\ wallpaperCalls' = RemoveAt(wallpaperCalls, i)
    /\ showToast("Wallpaper set successfully!", "success")
    /\ wallpaperFinally
    /\ console' = logged
    /\ UNCHANGED <<currentMode, currentTheme, hasPreview, modeTabs, themeBtns,
                   inputs, scheduleToggle, generateBtn, preview,
                   lifeOnlyHidden, monthsOnlyHidden, initPhase,
                   previewCalls, scheduleCalls,
                   previewSucceeded, loadedConfig, origin, touched, nEvents,
                   arrival, now, timers, shownAt, installed, website>>

\* save_config resolves
SaveConfigResolve(i) == wallpaperDone(i, <<>>)

\* mutant: the catch block of saveConfig() logs and throws again, into the
\* catch block of setWallpaper()
SaveConfigRejectRethrows(i, error) ==
    /\ i \in 1..Len(wallpaperCalls)
    /\ wallpaperCalls[i].phase = "save_config"
    /\ wallpaperCalls' = RemoveAt(wallpaperCalls, i)
    /\ showToast("Error: " \o error, "error")
    /\ wallpaperFinally
    /\ console' = <<"Save config error:", "Set wallpaper error:">>
    /\ UNCHANGED <<currentMode, currentTheme, hasPreview, modeTabs, themeBtns,
                   inputs, scheduleToggle, generateBtn, preview,
                   lifeOnlyHidden, monthsOnlyHidden, initPhase,
                   previewCalls, scheduleCalls,
                   previewSucceeded, loadedConfig, origin, touched, nEvents,
                   arrival, now, timers, shownAt, installed, website>>

\* save_config rejects: saveConfig() logs the error and returns normally
SaveConfigReject(i, error) == wallpaperDone(i, <<"Save config error:">>)

\* ----------------------------------------------------------------- schedule
\* mutant: the catch block writes the failed value back
toggleRevertKeeps(enabled) == enabled

\* the value toggleSchedule() writes back in its catch block
toggleRevert(enabled) == ~enabled

\* the user flips the schedule toggle; toggleSchedule() reads the new value
ToggleSchedule ==
    /\ nEvents < MaxEvents
    /\ nEvents' = nEvents + 1
    /\ scheduleToggle' = ~scheduleToggle
    /\ scheduleCalls' = Append(scheduleCalls,
          [enabled |-> scheduleToggle', before |-> scheduleToggle])
    /\ console' = <<>>
    /\ UNCHANGED <<currentMode, currentTheme, hasPreview, modeTabs, themeBtns,
                   inputs, generateBtn, setWallpaperBtn, preview,
                   lifeOnlyHidden, monthsOnlyHidden, toast, initPhase,
                   previewCalls, wallpaperCalls,
                   previewSucceeded, loadedConfig, origin, touched,
                   arrival, now, timers, shownAt, installed, website>>

\* toggleSchedule() after its await has resolved: the backend's message is shown
toggleResolved(i) ==
    /\ i \in 1..Len(scheduleCalls)
    /\ scheduleCalls' = RemoveAt(scheduleCalls, i)
    /\ showToast(ScheduleMessage(scheduleCalls[i].enabled), "success")
    /\ console' = <<>>
    /\ UNCHANGED <<currentMode, currentTheme, hasPreview, modeTabs, themeBtns,
                   inputs, scheduleToggle, generateBtn, setWallpaperBtn, preview,
                   lifeOnlyHidden, monthsOnlyHidden, initPhase,
                   previewCalls, wallpaperCalls,
                   previewSucceeded, loadedConfig, origin, touched, nEvents,
                   arrival, now, timers, shownAt, website>>

\* toggle_schedule resolves with the backend's message
ToggleScheduleResolve(i) ==
    /\ toggleResolved(i)
    /\ UNCHANGED installed

\* toggle_schedule rejects: the toggle is written back, error toast
ToggleScheduleReject(i, error) ==
    /\ i \in 1..Len(scheduleCalls)
    /\ scheduleCalls' = RemoveAt(scheduleCalls, i)
    /\ scheduleToggle' = toggleRevert(scheduleCalls[i].enabled)
    /\ showToast("Error: " \o error, "error")
    /\ console' = <<"Toggle schedule error:">>
    /\ UNCHANGED <<currentMode, currentTheme, hasPreview, modeTabs, themeBtns,
                   inputs, generateBtn, setWallpaperBtn, preview,
                   lifeOnlyHidden, monthsOnlyHidden, initPhase,
                   previewCalls, wallpaperCalls,
                   previewSucceeded, loadedConfig, origin, touched, nEvents,
                   arrival, now, timers, shownAt, installed, website>>

\* ------------------------------------------------------------ specification
Next ==
    \/ \E m \in Modes : SelectMode(m)
    \/ \E t \in Themes : SelectTheme(t)
    \/ \E f \in FieldNames : \E v \in EditValues(f) : EditField(f, v)
    \/ DetectClick
    \/ \E config \in Configs : LoadConfigResolve(config)
    \/ LoadConfigReject
    \/ GenerateClick
    \/ \E i \in DOMAIN previewCalls : \E r \in Responses : GeneratePreviewResolve(i, r)
    \/ \E i \in DOMAIN previewCalls : \E e \in Errors("generate_preview") : GeneratePreviewReject(i, e)
    \/ SetWallpaperClick
    \/ \E i \in DOMAIN wallpaperCalls : SetWallpaperResolve(i)
    \/ \E i \in DOMAIN wallpaperCalls : \E e \in Errors("set_wallpaper_cmd") : SetWallpaperReject(i, e)
    \/ \E i \in DOMAIN wallpaperCalls : SaveConfigResolve(i)
    \/ \E i \in DOMAIN wallpaperCalls : \E e \in Errors("save_config") : SaveConfigReject(i, e)
    \/ ToggleSchedule
    \/ \E i \in DOMAIN scheduleCalls : ToggleScheduleResolve(i)
    \/ \E i \in DOMAIN scheduleCalls : \E e \in Errors("toggle_schedule") : ToggleScheduleReject(i, e)
    \/ ToastTimeout

Spec == Init /\ [][Next]_vars

\* ------------------------------------------------ request parsing (SpecParse)
\* the characters typed into a numeric field
ParseAlphabet == {"0", "1", "7", "-", "+", ".", "a", "x", " "}
Texts == UNION {[1..n -> ParseAlphabet] : n \in 0..MaxLen}
NumericFields == {"lifespan", "months", "width", "height"}

\* the session after get_config was rejected, the toast has gone and the user
\* has typed the text s into the numeric field f
InitParse ==
    /\ currentMode = "year-end"
    /\ currentTheme = "dark"
    /\ hasPreview = FALSE
    /\ modeTabs = {"year-end"}
    /\ themeBtns = {"dark"}
    /\ \E scr \in Screens : \E f \in NumericFields : \E s \in Texts :
          /\ inputs = [[dob |-> "", lifespan |-> <<>>, months |-> <<>>,
                        width |-> NumToString(DetectedWidth(scr)),
                        height |-> NumToString(DetectedHeight(scr))]
                       EXCEPT ![f] = s]
          /\ origin = [[g \in FieldNames |->
                          IF g \in {"width", "height"} THEN "auto" ELSE "none"]
                       EXCEPT ![f] = "user"]
    /\ scheduleToggle = FALSE
    /\ generateBtn = [loading |-> FALSE, disabled |-> FALSE]
    /\ setWallpaperBtn = [loading |-> FALSE, disabled |-> TRUE]
    /\ preview = NoPreview
    /\ lifeOnlyHidden = TRUE
    /\ monthsOnlyHidden = TRUE
    /\ toast = [message |-> "Screen resolution detected", type |-> "success",
                show |-> FALSE]
    /\ initPhase = "ready"
    /\ previewCalls = <<>>
    /\ wallpaperCalls = <<>>
    /\ scheduleCalls = <<>>
    /\ previewSucceeded = FALSE
    /\ loadedConfig = <<>>
    /\ touched = TRUE
    /\ nEvents = 1
    /\ arrival = <<>>
    /\ console = <<>>
    /\ Untimed
    /\ NotFollowed

NextParse == GenerateClick

SpecParse == InitParse /\ [][NextParse]_vars

\* ------------------------------------------------- the percent (SpecPercent)
\* the started session: get_config was rejected, init() has detected the
\* screen scr and shown its toast, which is in the state tst
Started(scr, tst) ==
    /\ currentMode = "year-end"
    /\ currentTheme = "dark"
    /\ hasPreview = FALSE
    /\ modeTabs = {"year-end"}
    /\ themeBtns = {"dark"}
    /\ inputs = [dob |-> "", lifespan |-> <<>>, months |-> <<>>,
                 width |-> NumToString(DetectedWidth(scr)),
                 height |-> NumToString(DetectedHeight(scr))]
    /\ origin = [g \in FieldNames |->
                    IF g \in {"width", "height"} THEN "auto" ELSE "none"]
    /\ scheduleToggle = FALSE
    /\ setWallpaperBtn = [loading |-> FALSE, disabled |-> TRUE]
    /\ preview = NoPreview
    /\ lifeOnlyHidden = TRUE
    /\ monthsOnlyHidden = TRUE
    /\ toast = [message |-> "Screen resolution detected", type |-> "success",
                show |-> tst]
    /\ initPhase = "ready"
    /\ wallpaperCalls = <<>>
    /\ scheduleCalls = <<>>
    /\ previewSucceeded = FALSE
    /\ loadedConfig = <<>>
    /\ touched = FALSE
    /\ arrival = <<>>
    /\ console = <<>>

\* the started session after the toast has gone and the generate button was
\* clicked: one generate_preview call is in flight
InitPercent ==
    /\ \E scr \in Screens : Started(scr, FALSE)
    /\ generateBtn = [loading |-> TRUE, disabled |-> TRUE]
    /\ previewCalls = <<[request |-> buildRequest(currentMode, currentTheme, inputs),
                         snap |-> [preview |-> NoPreview, hasPreview |-> FALSE,
                                   applyDisabled |-> TRUE],
                         ready |-> TRUE,
                         origin |-> origin,
                         overtaken |-> FALSE]>>
    /\ nEvents = 1
    /\ Untimed
    /\ NotFollowed

NextPercent ==
    \E i \in DOMAIN previewCalls : \E r \in PercentResponses :
        GeneratePreviewResolve(i, r)

SpecPercent == InitPercent /\ [][NextPercent]_vars

\* ------------------------------------------------ formatNumber (SpecFormat)
\* the session of InitPercent: the call in flight is answered with a
\* response whose week counts run over FormatNumbers
NextFormat ==
    \E i \in DOMAIN previewCalls : \E r \in FormatResponses :
        GeneratePreviewResolve(i, r)

SpecFormat == InitPercent /\ [][NextFormat]_vars

\* ---------------------------------------------- the toast timer (SpecToast)
ToastInterval == 3     \* the delay of showToast's timeout: 3000 ms, in seconds
MaxTime == 8           \* the clock stops here (seconds)

\* setTimeout(..., 3000) in showToast: one more timeout is pending; no
\* pending timeout is cleared
setToastTimeout ==
    /\ timers' = timers \cup {now + ToastInterval}
    /\ shownAt' = now
    /\ now' = now

\* the started session at the moment init() has shown its toast
InitToast ==
    /\ \E scr \in Screens : Started(scr, TRUE)
    /\ generateBtn = [loading |-> FALSE, disabled |-> FALSE]
    /\ previewCalls = <<>>
    /\ nEvents = 0
    /\ now = 0
    /\ shownAt = 0
    /\ timers = {ToastInterval}
    /\ NotFollowed

\* click on the detect-resolution button, with the timeout showToast sets
TimedDetectClick ==
    /\ detectClicked
    /\ setToastTimeout

\* a pending timeout is due: its callback removes the class show
TimerFires ==
    /\ \E d \in timers : d <= now /\ timers' = timers \ {d}
    /\ toast' = [toast EXCEPT !.show = FALSE]
    /\ console' = <<>>
    /\ UNCHANGED <<currentMode, currentTheme, hasPreview, modeTabs, themeBtns,
                   inputs, scheduleToggle, generateBtn, setWallpaperBtn, preview,
                   lifeOnlyHidden, monthsOnlyHidden, initPhase,
                   previewCalls, wallpaperCalls, scheduleCalls,
                   previewSucceeded, loadedConfig, origin, touched, nEvents,
                   arrival, now, shownAt, installed, website>>

\* a second passes; a timeout that is due fires first
Tick ==
    /\ now < MaxTime
    /\ \A d \in timers : d > now
    /\ now' = now + 1
    /\ UNCHANGED <<currentMode, currentTheme, hasPreview, modeTabs, themeBtns,
                   inputs, scheduleToggle, generateBtn, setWallpaperBtn, preview,
                   lifeOnlyHidden, monthsOnlyHidden, toast, initPhase,
                   previewCalls, wallpaperCalls, scheduleCalls,
                   previewSucceeded, loadedConfig, origin, touched, nEvents,
                   arrival, console, timers, shownAt, installed, website>>

NextToast ==
    \/ TimedDetectClick
    \/ TimerFires
    \/ Tick

SpecToast == InitToast /\ [][NextToast]_vars

\* ------------------------------------------ the schedule (SpecSchedule)
\* the app as it starts, the schedule in the backend installed or not
InitSchedule ==
    /\ AppStart
    /\ installed \in BOOLEAN
    /\ website = NoPage

\* get_config resolves with the backend's schedule state
ScheduleConfigResolve(config) ==
    /\ config.schedule_installed = installed
    /\ LoadConfigResolve(config)

\* toggle_schedule resolves: the backend has set the schedule as the call
\* asked.  A call that rejects has left the schedule as it was.
TrackedToggleScheduleResolve(i) ==
    /\ toggleResolved(i)
    /\ installed' = scheduleCalls[i].enabled

NextSchedule ==
    \/ \E config \in Configs : ScheduleConfigResolve(config)
    \/ ToggleSchedule
    \/ \E i \in DOMAIN scheduleCalls : TrackedToggleScheduleResolve(i)
    \/ \E i \in DOMAIN scheduleCalls : \E e \in Errors("toggle_schedule") : ToggleScheduleReject(i, e)
    \/ ToastTimeout

SpecSchedule == InitSchedule /\ [][NextSchedule]_vars

\* ------------------------------------------- a burst of changes (SpecBurst)
\* what the user may type into a field during a burst
BurstValues(f) ==
    IF f = "dob" THEN {"1985-03-20", "2000-01-01", "1970-12-31"}
    ELSE {<<"4", "2">>, <<"7">>, <<"1", "0", "0">>}

\* the session with a preview on display: get_config was rejected, init()
\* has detected the screen, the generate button was clicked, the call has
\* resolved and the toast has gone.  No call is in flight.
InitBurst ==
    /\ currentMode = "year-end"
    /\ currentTheme = "dark"
    /\ hasPreview = TRUE
    /\ modeTabs = {"year-end"}
    /\ themeBtns = {"dark"}
    /\ \E scr \in Screens :
          inputs = [dob |-> "", lifespan |-> <<>>, months |-> <<>>,
                    width |-> NumToString(DetectedWidth(scr)),
                    height |-> NumToString(DetectedHeight(scr))]
    /\ origin = [g \in FieldNames |->
                    IF g \in {"width", "height"} THEN "auto" ELSE "none"]
    /\ scheduleToggle = FALSE
    /\ generateBtn = [loading |-> FALSE, disabled |-> FALSE]
    /\ setWallpaperBtn = [loading |-> FALSE, disabled |-> FALSE]
    /\ \E response \in Responses :
          /\ preview \in Displays[response]
          /\ arrival = Some([response |-> response, overtaken |-> FALSE])
    /\ lifeOnlyHidden = TRUE
    /\ monthsOnlyHidden = TRUE
    /\ toast = [message |-> "Preview generated!", type |-> "success",
                show |-> FALSE]
    /\ initPhase = "ready"
    /\ previewCalls = <<>>
    /\ wallpaperCalls = <<>>
    /\ scheduleCalls = <<>>
    /\ previewSucceeded = TRUE
    /\ loadedConfig = <<>>
    /\ touched = FALSE
    /\ nEvents = 1
    /\ console = <<>>
    /\ Untimed
    /\ NotFollowed

\* the burst: change events on the date of birth, the lifespan and the
\* months, one after the other, before any call is answered and before any
\* time has passed
NextBurst ==
    \E f \in {"dob", "lifespan", "months"} : \E v \in BurstValues(f) : EditField(f, v)

SpecBurst == InitBurst /\ [][NextBurst]_vars

\* ------------------------------------- the website's downloads (SpecSupport)
\* the variables of the app, which the website leaves alone
appVars == <<currentMode, currentTheme, hasPreview, modeTabs, themeBtns, inputs,
             scheduleToggle, generateBtn, setWallpaperBtn, preview,
             lifeOnlyHidden, monthsOnlyHidden, toast, initPhase,
             previewCalls, wallpaperCalls, scheduleCalls,
             previewSucceeded, loadedConfig, origin, touched, nEvents,
             arrival, console, now, timers, shownAt, installed>>

\* the website opened in a new browser session: initDownloads() has run to
\* its end, the click listeners are installed.  The app is not part of the
\* page; its variables stay as a session without config has them.
InitSupport ==
    /\ \E scr \in Screens : Started(scr, FALSE)
    /\ generateBtn = [loading |-> FALSE, disabled |-> FALSE]
    /\ previewCalls = <<>>
    /\ nEvents = 0
    /\ Untimed
    /\ NotFollowed

\* the support message as showSupportAfterDownload() appends it: not shown
\* yet, the timeouts of the animation (100 ms) and of the auto-hide (10 s)
\* pending, no removal pending
NewMessage ==
    [show |-> FALSE, animateIn |-> TRUE, autoHide |-> TRUE, removal |-> FALSE]

\* mutant: showSupportAfterDownload() without its last statement, the flag
\* is never stored
showSupportForgetsFlag(w) ==
    IF w.supportShown THEN w
    ELSE [w EXCEPT !.messages = Append(@, NewMessage),
                   !.added = @ + 1]

\* showSupportAfterDownload() on the website state w
showSupportAfterDownload(w) ==
    IF w.supportShown THEN w
    ELSE [w EXCEPT !.messages = Append(@, NewMessage),
                   !.added = @ + 1,
                   !.supportShown = TRUE]

\* click on a download element: setTimeout(showSupportAfterDownload, 500)
DownloadClick ==
    /\ website.clicks < MaxClicks
    /\ website' = [website EXCEPT !.clicks = @ + 1, !.downloads = @ + 1]
    /\ UNCHANGED appVars

\* a timeout set by a download click fires
DownloadTimeout ==
    /\ website.downloads > 0
    /\ website' = showSupportAfterDownload([website EXCEPT !.downloads = @ - 1])
    /\ UNCHANGED appVars

\* the animation timeout of the k-th message fires: classList.add('show')
AnimateIn(k) ==
    /\ k \in DOMAIN website.messages
    /\ website.messages[k].animateIn
    /\ website' = [website EXCEPT !.messages[k].animateIn = FALSE,
                                  !.messages[k].show = TRUE]
    /\ UNCHANGED appVars

\* click on the close button of the k-th message: the class show is
\* removed, the removal is set for 300 ms later
CloseClick(k) ==
    /\ k \in DOMAIN website.messages
    /\ website' = [website EXCEPT !.messages[k].show = FALSE,
                                  !.messages[k].removal = TRUE]
    /\ website' # website
    /\ UNCHANGED appVars

\* the auto-hide timeout of the k-th message fires while the message is in
\* the page
AutoHide(k) ==
    /\ k \in DOMAIN website.messages
    /\ website.messages[k].autoHide
    /\ website' = [website EXCEPT !.messages[k].autoHide = FALSE,
                                  !.messages[k].show = FALSE,
                                  !.messages[k].removal = TRUE]
    /\ UNCHANGED appVars

\* a removal timeout of the k-th message fires: supportMessage.remove()
RemoveMessage(k) ==
    /\ k \in DOMAIN website.messages
    /\ website.messages[k].removal
    /\ website' = [website EXCEPT !.messages = RemoveAt(@, k)]
    /\ UNCHANGED appVars

\* the page is loaded again in the same browser session: the page and its
\* timeouts are new, the session storage is kept
Reload ==
    /\ website' = [website EXCEPT !.downloads = 0, !.messages = <<>>]
    /\ website' # website
    /\ UNCHANGED appVars

NextSupport ==
    \/ DownloadClick
    \/ DownloadTimeout
    \/ \E k \in DOMAIN website.messages : AnimateIn(k)
    \/ \E k \in DOMAIN website.messages : CloseClick(k)
    \/ \E k \in DOMAIN website.messages : AutoHide(k)
    \/ \E k \in DOMAIN website.messages : RemoveMessage(k)
    \/ Reload

SpecSupport == InitSupport /\ [][NextSupport]_vars

\* ------------------------------- the website's release assets (SpecDownloads)
\* String.prototype.toLowerCase, and the flag i of the patterns
UpperCase == <<"A", "B", "C", "D", "E", "F", "G", "H", "I", "J", "K", "L", "M",
               "N", "O", "P", "Q", "R", "S", "T", "U", "V", "W", "X", "Y", "Z">>
LowerCase == <<"a", "b", "c", "d", "e", "f", "g", "h", "i", "j", "k", "l", "m",
               "n", "o", "p", "q", "r", "s", "t", "u", "v", "w", "x", "y", "z">>

toLowerCase(s) ==
    [k \in DOMAIN s |->
        IF \E u \in DOMAIN UpperCase : UpperCase[u] = s[k]
        THEN LowerCase[CHOOSE u \in DOMAIN UpperCase : UpperCase[u] = s[k]]
        ELSE s[k]]

\* the text lit stands in s from position i on
HasAt(s, i, lit) ==
    /\ i + Len(lit) - 1 <= Len(s)
    /\ SubSeq(s, i, i + Len(lit) - 1) = lit

\* String.prototype.endsWith
endsWith(s, lit) ==
    /\ Len(lit) <= Len(s)
    /\ SubSeq(s, Len(s) - Len(lit) + 1, Len(s)) = lit

\* [\s_-]? at position i: the positions where the rest of the pattern may go on
Separators == {" ", "_", "-"}      \* of the white space \s stands for, the space
AfterSeparator(s, i) ==
    {i} \cup (IF i <= Len(s) /\ s[i] \in Separators THEN {i + 1} ELSE {})

\* guiNamePattern, life[\s_-]?in[\s_-]?weeks, anchored at the start of the
\* lower-case text s: the positions that follow a match
guiNamePattern(s) ==
    LET afterLife == IF HasAt(s, 1, <<"l", "i", "f", "e">>) THEN AfterSeparator(s, 5) ELSE {}
        afterIn == UNION {AfterSeparator(s, i + 2) :
                             i \in {j \in afterLife : HasAt(s, j, <<"i", "n">>)}}
    IN  {i + 5 : i \in {j \in afterIn : HasAt(s, j, <<"w", "e", "e", "k", "s">>)}}

\* a pattern of initDownloads: /^text$/i when named is false, and
\* new RegExp(`^${guiNamePattern}.*text$`, 'i') when it is true
Literal(text) == [named |-> FALSE, text |-> text]
Named(text) == [named |-> TRUE, text |-> text]

\* pattern.test(name)
test(pattern, name) ==
    LET s == toLowerCase(name)
        lit == toLowerCase(pattern.text)
    IN  IF pattern.named
        THEN /\ endsWith(s, lit)
             /\ \E i \in guiNamePattern(s) : i <= Len(s) - Len(lit) + 1
        ELSE s = lit

\* the platforms detectPlatform() tells apart, the keys of cliUrls that have
\* patterns, and the keys of guiLinks
Platforms == {"windows", "macos", "macos-arm", "linux", "unknown"}
CliKeys == {"windows", "macos", "macos-arm", "linux"}
GuiKeys == {"windows", "macos", "linux"}

RELEASE_BASE == "https://github.com/atsedeweyn/life-in-weeks/releases/latest/download"
RELEASE_PAGE == "https://github.com/atsedeweyn/life-in-weeks/releases/latest"

fallbackCliUrls ==
    [key \in Platforms |->
        CASE key = "windows" -> RELEASE_BASE \o "/liw-windows-amd64.exe"
          [] key = "macos" -> RELEASE_BASE \o "/liw-macos-amd64"
          [] key = "macos-arm" -> RELEASE_BASE \o "/liw-macos-arm64"
          [] key = "linux" -> RELEASE_BASE \o "/liw-linux-amd64"
          [] key = "unknown" -> RELEASE_PAGE]

fallbackGuiLinks ==
    [key \in GuiKeys |->
        CASE key = "windows" -> [url |-> RELEASE_BASE \o "/liw-gui-windows.msi",
                                 label |-> ".msi Installer"]
          [] key = "macos" -> [url |-> RELEASE_BASE \o "/liw-gui-macos.dmg",
                               label |-> ".dmg Installer"]
          [] key = "linux" -> [url |-> RELEASE_BASE \o "/liw-gui-linux.AppImage",
                               label |-> ".AppImage"]]

\* the priority lists of patterns handed to pickAsset, by key
cliPatterns(key) ==
    CASE key = "windows" -> <<Literal(<<"l", "i", "w", "-", "w", "i", "n", "d", "o", "w", "s", "-", "a", "m", "d", "6", "4", ".", "e", "x", "e">>)>>
      [] key = "macos" -> <<Literal(<<"l", "i", "w", "-", "m", "a", "c", "o", "s", "-", "a", "m", "d", "6", "4">>)>>
      [] key = "macos-arm" -> <<Literal(<<"l", "i", "w", "-", "m", "a", "c", "o", "s", "-", "a", "r", "m", "6", "4">>)>>
      [] key = "linux" -> <<Literal(<<"l", "i", "w", "-", "l", "i", "n", "u", "x", "-", "a", "m", "d", "6", "4">>)>>

guiPatterns(key) ==
    CASE key = "windows" ->
         <<Literal(<<"l", "i", "w", "-", "g", "u", "i", "-", "w", "i", "n", "d", "o", "w", "s", ".", "e", "x", "e">>),
           Literal(<<"l", "i", "w", "-", "g", "u", "i", "-", "w", "i", "n", "d", "o", "w", "s", ".", "m", "s", "i">>),
           Named(<<".", "e", "x", "e">>),
           Named(<<".", "m", "s", "i">>)>>
      [] key = "macos" ->
         <<Literal(<<"l", "i", "w", "-", "g", "u", "i", "-", "m", "a", "c", "o", "s", ".", "d", "m", "g">>),
           Literal(<<"l", "i", "w", "-", "g", "u", "i", "-", "m", "a", "c", "o", "s", ".", "a", "p", "p", ".", "t", "a", "r", ".", "g", "z">>),
           Literal(<<"l", "i", "w", "-", "g", "u", "i", "-", "m", "a", "c", "o", "s", ".", "a", "p", "p", ".", "z", "i", "p">>),
           Named(<<".", "d", "m", "g">>),
           Named(<<".", "a", "p", "p", ".", "t", "a", "r", ".", "g", "z">>),
           Named(<<".", "a", "p", "p", ".", "z", "i", "p">>)>>
      [] key = "linux" ->
         <<Literal(<<"l", "i", "w", "-", "g", "u", "i", "-", "l", "i", "n", "u", "x", ".", "A", "p", "p", "I", "m", "a", "g", "e">>),
           Literal(<<"l", "i", "w", "-", "g", "u", "i", "-", "l", "i", "n", "u", "x", ".", "d", "e", "b">>),
           Literal(<<"l", "i", "w", "-", "g", "u", "i", "-", "l", "i", "n", "u", "x", ".", "r", "p", "m">>),
           Named(<<".", "A", "p", "p", "I", "m", "a", "g", "e">>),
           Named(<<".", "d", "e", "b">>),
           Named(<<".", "r", "p", "m">>)>>

\* the assets of a release as the GitHub API lists them: the name, and the
\* browser_download_url, "" when the asset has none.  The names are the
\* file names of the fallback links, names in other letter case, installers
\* named after the product the way a bundler names them, and a checksum
\* file that no pattern matches.
RELEASE_DOWNLOAD == "https://github.com/atsedeweyn/life-in-weeks/releases/download/v1.0.0"

Assets == {
    [name |-> <<"l", "i", "w", "-", "w", "i", "n", "d", "o", "w", "s", "-", "a", "m", "d", "6", "4", ".", "e", "x", "e">>,
     browser_download_url |-> RELEASE_DOWNLOAD \o "/liw-windows-amd64.exe"],
    [name |-> <<"L", "I", "W", "-", "L", "i", "n", "u", "x", "-", "A", "M", "D", "6", "4">>,
     browser_download_url |-> RELEASE_DOWNLOAD \o "/LIW-Linux-AMD64"],
    [name |-> <<"l", "i", "w", "-", "m", "a", "c", "o", "s", "-", "a", "r", "m", "6", "4">>,
     browser_download_url |-> RELEASE_DOWNLOAD \o "/liw-macos-arm64"],
    [name |-> <<"l", "i", "w", "-", "g", "u", "i", "-", "w", "i", "n", "d", "o", "w", "s", ".", "e", "x", "e">>,
     browser_download_url |-> RELEASE_DOWNLOAD \o "/liw-gui-windows.exe"],
    [name |-> <<"l", "i", "w", "-", "g", "u", "i", "-", "w", "i", "n", "d", "o", "w", "s", ".", "m", "s", "i">>,
     browser_download_url |-> RELEASE_DOWNLOAD \o "/liw-gui-windows.msi"],
    [name |-> <<"L", "i", "f", "e", " ", "i", "n", " ", "W", "e", "e", "k", "s", "_", "1", ".", "0", "_", "x", "6", "4", "-", "s", "e", "t", "u", "p", ".", "e", "x", "e">>,
     browser_download_url |-> RELEASE_DOWNLOAD \o "/Life.in.Weeks_1.0_x64-setup.exe"],
    [name |-> <<"l", "i", "w", "-", "g", "u", "i", "-", "l", "i", "n", "u", "x", ".", "A", "p", "p", "I", "m", "a", "g", "e">>,
     browser_download_url |-> RELEASE_DOWNLOAD \o "/liw-gui-linux.AppImage"],
    [name |-> <<"l", "i", "f", "e", "-", "i", "n", "-", "w", "e", "e", "k", "s", "_", "1", ".", "0", "_", "a", "m", "d", "6", "4", ".", "d", "e", "b">>,
     browser_download_url |-> RELEASE_DOWNLOAD \o "/life-in-weeks_1.0_amd64.deb"],
    [name |-> <<"l", "i", "w", "-", "g", "u", "i", "-", "m", "a", "c", "o", "s", ".", "d", "m", "g">>,
     browser_download_url |-> ""],
    [name |-> <<"L", "i", "f", "e", "I", "n", "W", "e", "e", "k", "s", ".", "a", "p", "p", ".", "t", "a", "r", ".", "g", "z">>,
     browser_download_url |-> RELEASE_DOWNLOAD \o "/LifeInWeeks.app.tar.gz"],
    [name |-> <<"l", "i", "w", "-", "g", "u", "i", "-", "m", "a", "c", "o", "s", ".", "a", "p", "p", ".", "z", "i", "p">>,
     browser_download_url |-> RELEASE_DOWNLOAD \o "/liw-gui-macos.app.zip"],
    [name |-> <<"l", "i", "w", "-", "w", "i", "n", "d", "o", "w", "s", "-", "a", "m", "d", "6", "4", ".", "e", "x", "e", ".", "s", "h", "a", "2", "5", "6">>,
     browser_download_url |-> RELEASE_DOWNLOAD \o "/liw-windows-amd64.exe.sha256"]}

AssetLists == UNION {[1..n -> Assets] : n \in 0..MaxAssets}

\* the body of the answer, res.json(): data.assets is an array or it is not
ReleaseData ==
    {[isArray |-> TRUE, assets |-> assets] : assets \in AssetLists}
        \cup {[isArray |-> FALSE, assets |-> Undefined]}

\* pattern.test(name) for the patterns of initDownloads and the names of
\* Assets, computed once
Patterns ==
    UNION ({{cliPatterns(key)[p] : p \in DOMAIN cliPatterns(key)} : key \in CliKeys}
           \cup {{guiPatterns(key)[p] : p \in DOMAIN guiPatterns(key)} : key \in GuiKeys})

tested == [pattern \in Patterns |-> {a.name : a \in {b \in Assets : test(pattern, b.name)}}]

\* assets.find(asset => pattern.test(asset.name)) for the patterns from the
\* p-th on, in their order
RECURSIVE pickFrom(_, _, _)
pickFrom(assets, patterns, p) ==
    IF p > Len(patterns) THEN Null
    ELSE LET hits == {k \in DOMAIN assets : assets[k].name \in tested[patterns[p]]}
         IN  IF hits # {}
             THEN Some(assets[CHOOSE k \in hits : \A h \in hits : k <= h])
             ELSE pickFrom(assets, patterns, p + 1)

\* mutant: the first asset that matches any of the patterns
pickAssetInAssetOrder(assets, patterns) ==
    LET hits == {k \in DOMAIN assets :
                    \E p \in DOMAIN patterns : assets[k].name \in tested[patterns[p]]}
    IN  IF hits # {}
        THEN Some(assets[CHOOSE k \in hits : \A h \in hits : k <= h])
        ELSE Null

\* pickAsset(assets, patterns): null or the asset found
pickAsset(assets, patterns) == pickFrom(assets, patterns, 1)

\* the label of a GUI card, from the name of the asset picked for it
guiLabel(key, name) ==
    LET s == toLowerCase(name)
    IN  CASE key = "windows" ->
               IF endsWith(s, <<".", "e", "x", "e">>) THEN ".exe Installer" ELSE ".msi Installer"
          [] key = "macos" ->
               IF endsWith(s, <<".", "d", "m", "g">>) THEN ".dmg Installer"
               ELSE IF endsWith(s, <<".", "a", "p", "p", ".", "t", "a", "r", ".", "g", "z">>) THEN ".app Bundle (.tar.gz)"
               ELSE IF endsWith(s, <<".", "a", "p", "p", ".", "z", "i", "p">>) THEN ".app Bundle (.zip)"
               ELSE "macOS Bundle"
          [] key = "linux" ->
               IF endsWith(s, <<".", "d", "e", "b">>) THEN ".deb Package"
               ELSE IF endsWith(s, <<".", "r", "p", "m">>) THEN ".rpm Package"
               ELSE ".AppImage"

\* the page while initDownloads() runs: where the lookup stands ("fetch",
\* "json", then "done"), what loadReleaseAssets() returned (null, or the
\* array), cliUrls and guiLinks, and the links of the page: the href of
\* #cli-download-btn and the href and label of the cards #gui-windows,
\* #gui-macos and #gui-linux, null while they are as the markup has them.
\* The target and download attributes and the classes active and
\* recommended are left out.
LoadingPage(platform) ==
    [lookup |-> "fetch",
     platform |-> platform,
     assets |-> Null,
     cliUrls |-> fallbackCliUrls,
     guiLinks |-> fallbackGuiLinks,
     cliBtn |-> Null,
     cards |-> [key \in GuiKeys |-> Null]]

\* the website opened on one of the platforms: initDownloads() stands at
\* the fetch of loadReleaseAssets().  The app is not part of the page.
InitDownloads ==
    /\ \E scr \in Screens : Started(scr, FALSE)
    /\ generateBtn = [loading |-> FALSE, disabled |-> FALSE]
    /\ previewCalls = <<>>
    /\ nEvents = 0
    /\ Untimed
    /\ installed = FALSE
    /\ \E platform \in Platforms : website = LoadingPage(platform)

\* cliUrls after the block if (assets) {...}, assets being the array
cliUrlsFrom(assets) ==
    [key \in Platforms |->
        IF key \in CliKeys
        THEN LET asset == pickAsset(assets, cliPatterns(key))
             IN  IF asset # Null /\ asset[1].browser_download_url # ""
                 THEN asset[1].browser_download_url
                 ELSE fallbackCliUrls[key]
        ELSE fallbackCliUrls[key]]

\* guiLinks after the block if (assets) {...}, assets being the array
guiLinksFrom(assets) ==
    [key \in GuiKeys |->
        LET asset == pickAsset(assets, guiPatterns(key))
        IN  IF asset # Null /\ asset[1].browser_download_url # ""
            THEN [url |-> asset[1].browser_download_url,
                  label |-> guiLabel(key, asset[1].name)]
            ELSE fallbackGuiLinks[key]]

\* initDownloads() from the return of loadReleaseAssets() to the links of
\* the page: returned is null or the array
linksUpdated(w, returned) ==
    LET cliUrls == IF returned # Null THEN cliUrlsFrom(returned[1]) ELSE w.cliUrls
        guiLinks == IF returned # Null THEN guiLinksFrom(returned[1]) ELSE w.guiLinks
    IN  [w EXCEPT !.lookup = "done",
                  !.assets = returned,
                  !.cliUrls = cliUrls,
                  !.guiLinks = guiLinks,
                  !.cliBtn = IF w.platform # "unknown"
                             THEN Some(cliUrls[w.platform]) ELSE @,
                  !.cards = [key \in GuiKeys |-> Some(guiLinks[key])]]

\* fetch() rejects (network error): catch, return null
FetchReject ==
    /\ website.lookup = "fetch"
    /\ website' = linksUpdated(website, Null)
    /\ UNCHANGED appVars

\* fetch() resolves: with res.ok false loadReleaseAssets() returns null,
\* with res.ok true it goes on to res.json()
FetchResolve(ok) ==
    /\ website.lookup = "fetch"
    /\ website' = IF ok THEN [website EXCEPT !.lookup = "json"]
                  ELSE linksUpdated(website, Null)
    /\ UNCHANGED appVars

\* res.json() rejects (the body is not JSON): catch, return null
JsonReject ==
    /\ website.lookup = "json"
    /\ website' = linksUpdated(website, Null)
    /\ UNCHANGED appVars

\* res.json() resolves with data: the array data.assets, or [] when it is
\* not an array
JsonResolve(data) ==
    /\ website.lookup = "json"
    /\ website' = linksUpdated(website,
                       Some(IF data.isArray THEN data.assets ELSE <<>>))
    /\ UNCHANGED appVars

NextDownloads ==
    \/ FetchReject
    \/ \E ok \in BOOLEAN : FetchResolve(ok)
    \/ JsonReject
    \/ \E data \in ReleaseData : JsonResolve(data)

SpecDownloads == InitDownloads /\ [][NextDownloads]_vars

\* ------------------------------------------------------------------- claims
\* the field groups are shown as the current mode asks
VisibilityMatchesMode ==
    /\ lifeOnlyHidden = (currentMode # "life")
    /\ monthsOnlyHidden = (currentMode # "next-months")

\* C1: the apply control is enabled only in states reached after some
\* generate_preview call has resolved successfully
ApplyEnabledOnlyAfterPreview ==
    ~setWallpaperBtn.disabled => previewSucceeded

ApplyEnabledAfterApply ==
    /\ ~setWallpaperBtn.disabled
    /\ previewSucceeded
    /\ toast.message = "Wallpaper set successfully!"

\* C2: hasPreview is false at the start, is true only when a generate_preview
\* call has resolved, and only a resolving generate_preview step sets it
HasPreviewOnlyBySuccess ==
    /\ ~hasPreview
    /\ [](hasPreview => previewSucceeded)
    /\ [][(~hasPreview /\ hasPreview') =>
            \E i \in DOMAIN previewCalls : \E r \in Responses :
                GeneratePreviewResolve(i, r)]_vars

HasPreviewAfterSuccess ==
    /\ hasPreview
    /\ toast.message = "Preview generated!"
    /\ preview.src = "data:image/png;base64,iVBORw0A"

\* C3: hasPreview never goes back from true to false
HasPreviewMonotonic == [][hasPreview => hasPreview']_vars

HasPreviewSurvivesFailure ==
    /\ hasPreview
    /\ toast.message = "Error: generate_preview failed"

\* C4 as stated: after a generate_preview call has failed, the preview, hasPreview
\* and the apply control are as they were when that call was issued
FailedPreviewRestoresIssueState ==
    [][\A i \in DOMAIN previewCalls : \A e \in Errors("generate_preview") :
          GeneratePreviewReject(i, e) => PreviewSnapshot' = previewCalls[i].snap]_vars

\* C4 amended: the step that handles a generate_preview failure changes neither
\* the preview (image, title, subtitle, stats) nor hasPreview nor the apply
\* control: they are after the failure what they were just before it
FailedPreviewChangesNothing ==
    [][(/\ Len(previewCalls') = Len(previewCalls) - 1
        /\ toast'.type = "error"
        /\ toast'.show) => PreviewSnapshot' = PreviewSnapshot]_vars

FailedPreviewKeepsImage ==
    /\ toast.message = "Error: generate_preview failed"
    /\ preview.src = "data:image/png;base64,iVBORw0B"
    /\ ~preview.imageHidden
    /\ ~setWallpaperBtn.disabled

\* C5: once startup has run its visibility update, and after every mode
\* selection and every config load, the life-only fields are visible iff the
\* mode is life and the months-only fields iff the mode is next-months
VisibilityFollowsMode ==
    /\ [](initPhase = "ready" => VisibilityMatchesMode)
    /\ [][((\E m \in Modes : SelectMode(m))
           \/ (\E config \in Configs : LoadConfigResolve(config))
           \/ LoadConfigReject) => VisibilityMatchesMode']_vars

MonthsFieldsShown ==
    /\ initPhase = "ready"
    /\ currentMode = "next-months"
    /\ ~monthsOnlyHidden
    /\ lifeOnlyHidden

\* C6: a failing toggle_schedule call puts the toggle back to the value it had
\* before the user's toggle action and shows an error notification
FailedToggleReverts ==
    [][\A i \in DOMAIN scheduleCalls : \A e \in Errors("toggle_schedule") :
          ToggleScheduleReject(i, e) =>
             /\ scheduleToggle' = scheduleCalls[i].before
             /\ toast' = [message |-> "Error: " \o e, type |-> "error",
                          show |-> TRUE]]_vars

ToggleRevertedToUnchecked ==
    /\ toast.message = "Error: toggle_schedule failed"
    /\ toast.show
    /\ ~scheduleToggle
    /\ scheduleCalls = <<>>

\* C7: when get_config rejects, init() still completes: mode and theme are left
\* alone (the built-in year-end and dark when the user chose nothing), the
\* field visibility is computed, the controls respond, and the step shows no
\* error notification
ConfigFailureKeepsDefaults ==
    /\ []((initPhase = "ready" /\ loadedConfig = <<>> /\ ~touched) =>
            /\ currentMode = "year-end"
            /\ currentTheme = "dark"
            /\ VisibilityMatchesMode
            /\ (nEvents < MaxEvents =>
                  /\ ENABLED (\E m \in Modes : SelectMode(m))
                  /\ ENABLED ToggleSchedule
                  /\ (~generateBtn.disabled => ENABLED GenerateClick)))
    /\ [][LoadConfigReject =>
            /\ initPhase' = "ready"
            /\ currentMode' = currentMode
            /\ currentTheme' = currentTheme
            /\ VisibilityMatchesMode'
            /\ toast'.type # "error"]_vars

StartedWithDefaults ==
    /\ initPhase = "ready"
    /\ loadedConfig = <<>>
    /\ ~touched
    /\ currentMode = "year-end"
    /\ currentTheme = "dark"
    /\ lifeOnlyHidden /\ monthsOnlyHidden
    /\ toast.message = "Screen resolution detected"

\* the integer a text of decimal digits denotes
RECURSIVE DecimalValue(_)
DecimalValue(s) ==
    IF s = <<>> THEN 0
    ELSE 10 * DecimalValue(SubSeq(s, 1, Len(s) - 1)) + DigitVal(s[Len(s)], 10)

\* a positive integer string: one or more decimal digits, value above zero
IsPositiveIntegerString(s) ==
    /\ s # <<>>
    /\ \A k \in 1..Len(s) : IsDigit(s[k])
    /\ DecimalValue(s) > 0

\* C8: a numeric request field is null when the input is empty or is not a
\* positive integer string, and otherwise the integer the input denotes
NumericFieldsParseStrictly ==
    \A i \in DOMAIN previewCalls : \A f \in NumericFields :
        previewCalls[i].request[f] =
            IF IsPositiveIntegerString(inputs[f])
            THEN Some(DecimalValue(inputs[f])) ELSE Null

\* C9: a request built after a successful get_config and before any change by
\* the user carries every field the config set, with the config's value
RequestCarriesConfig ==
    \A i \in DOMAIN previewCalls :
        (previewCalls[i].ready /\ loadedConfig # <<>> /\ ~touched) =>
            LET config == loadedConfig[1]
                request == previewCalls[i].request
            IN  /\ config.dob # "" => request.dob = Some(config.dob)
                /\ request.lifespan = Some(config.lifespan_years)
                /\ request.months = Some(config.next_months)
                /\ config.theme # Undefined => request.theme = config.theme
                /\ config.default_mode # "" => request.mode = config.default_mode
                /\ request.width = Some(config.screen_width)
                /\ request.height = Some(config.screen_height)

\* C10: an optional request field is non-null only when the user or the loaded
\* config supplied its value; with get_config failed and nothing entered, a
\* request built after startup has no width and no height
RequestFieldsNeverFabricated ==
    \A calls \in {previewCalls, wallpaperCalls} : \A i \in DOMAIN calls :
        /\ \A f \in FieldNames :
              calls[i].request[f] # Null => calls[i].origin[f] \in {"user", "config"}
        /\ (calls[i].ready /\ loadedConfig = <<>> /\ ~touched) =>
              (calls[i].request.width = Null /\ calls[i].request.height = Null)

\* the notifications that end an action, by the command it called
Notifications(command) ==
    {[message |-> "Error: " \o e, type |-> "error", show |-> TRUE] :
        e \in Errors(command)}
    \cup
    (CASE command = "generate_preview" ->
            {[message |-> "Preview generated!", type |-> "success", show |-> TRUE]}
       [] command = "set_wallpaper_cmd" ->
            {[message |-> "Wallpaper set successfully!", type |-> "success",
              show |-> TRUE]}
       [] command = "toggle_schedule" ->
            {[message |-> ScheduleMessage(b), type |-> "success", show |-> TRUE] :
                b \in BOOLEAN})

\* C11: a generate, apply or toggle action whose calls complete ends in exactly
\* one notification: the step that completes the action shows its success or
\* its error notification, and no earlier step of the action (issuing the call,
\* set_wallpaper_cmd resolving before save_config) shows any
ActionEndsInOneNotification ==
    [][/\ Len(previewCalls') < Len(previewCalls) =>
             toast' \in Notifications("generate_preview")
       /\ Len(wallpaperCalls') < Len(wallpaperCalls) =>
             toast' \in Notifications("set_wallpaper_cmd")
       /\ Len(scheduleCalls') < Len(scheduleCalls) =>
             toast' \in Notifications("toggle_schedule")
       /\ (/\ <<previewCalls, wallpaperCalls, scheduleCalls>>' #
                 <<previewCalls, wallpaperCalls, scheduleCalls>>
           /\ Len(previewCalls') >= Len(previewCalls)
           /\ Len(wallpaperCalls') >= Len(wallpaperCalls)
           /\ Len(scheduleCalls') >= Len(scheduleCalls)) => toast' = toast]_vars

ApplyEndedAfterSaveFailure ==
    /\ console = <<"Save config error:">>
    /\ wallpaperCalls = <<>>
    /\ toast \in Notifications("set_wallpaper_cmd")
    /\ toast.type = "success"

\* C12: while a generate_preview call is in flight the generate control is
\* disabled, while a set_wallpaper_cmd call is in flight the apply control is
\* disabled, and at most one call per control is outstanding
ControlDisabledWhileCallInFlight ==
    /\ previewCalls # <<>> => generateBtn.disabled
    /\ Len(previewCalls) <= 1
    /\ wallpaperCalls # <<>> => setWallpaperBtn.disabled
    /\ Len(wallpaperCalls) <= 1

\* C13: the preview on display (image, title, subtitle, stats) is that of the
\* generate_preview response that arrived last, also when the call it answers
\* was triggered before a call that was answered earlier
LastArrivalIsDisplayed ==
    arrival # <<>> =>
        /\ hasPreview
        /\ preview \in Displays[arrival[1].response]

OvertakenResponseDisplayed ==
    /\ arrival # <<>>
    /\ arrival[1].overtaken
    /\ previewCalls = <<>>
    /\ arrival[1].response.image_base64 = "iVBORw0B"
    /\ preview.src = "data:image/png;base64,iVBORw0B"
    /\ preview.title = "Life in Weeks"
    /\ preview.statPercent = <<"3", "1", "%">>

\* C14: when save_config rejects after set_wallpaper_cmd succeeded, the step
\* that handles the rejection only logs it: the apply action ends with the
\* success notification, and no error notification is shown
SaveFailureOnlyLogged ==
    (\E k \in DOMAIN console : console[k] = "Save config error:") =>
        /\ console = <<"Save config error:">>
        /\ toast = [message |-> "Wallpaper set successfully!", type |-> "success",
                    show |-> TRUE]

SaveFailureLogged ==
    /\ console = <<"Save config error:">>
    /\ toast.show
    /\ toast.type = "success"
    /\ ~setWallpaperBtn.disabled
    /\ ~setWallpaperBtn.loading

\* C15: when set_wallpaper_cmd resolves, the apply action's notification is
\* shown and the apply control is enabled again in that step, without
\* waiting for save_config
ApplyDoesNotAwaitSave ==
    [][(\E i \in DOMAIN wallpaperCalls : SetWallpaperResolve(i)) =>
          /\ toast' = [message |-> "Wallpaper set successfully!",
                       type |-> "success", show |-> TRUE]
          /\ ~setWallpaperBtn'.disabled]_vars

\* the number of actions whose backend calls have not all completed
InFlight == Len(previewCalls) + Len(wallpaperCalls) + Len(scheduleCalls)

\* the number of apply actions waiting for the given command
Awaiting(command) ==
    Cardinality({i \in DOMAIN wallpaperCalls : wallpaperCalls[i].phase = command})

\* C16: no automatic retry.  Calls are issued by user events only, one per
\* event at most; the step that handles a rejection issues no call, so the
\* action it ends is gone; save_config is invoked only in the step where a
\* set_wallpaper_cmd call resolves, never after a failure
NoAutomaticRetry ==
    /\ [](InFlight <= nEvents)
    /\ [][/\ nEvents' = nEvents =>
                /\ Len(previewCalls') <= Len(previewCalls)
                /\ Len(wallpaperCalls') <= Len(wallpaperCalls)
                /\ Len(scheduleCalls') <= Len(scheduleCalls)
          /\ nEvents' # nEvents =>
                /\ nEvents' = nEvents + 1
                /\ InFlight' <= InFlight + 1
          /\ console' # <<>> => InFlight' = InFlight - 1
          /\ Awaiting("save_config")' > Awaiting("save_config") =>
                /\ Awaiting("save_config")' = Awaiting("save_config") + 1
                /\ Awaiting("set_wallpaper_cmd")' = Awaiting("set_wallpaper_cmd") - 1
                /\ Len(wallpaperCalls') = Len(wallpaperCalls)
                /\ console' = <<>>
                /\ toast' = toast]_vars

FailureLeftNothingInFlight ==
    /\ console = <<"Generate preview error:">>
    /\ toast.message = "Error: generate_preview failed"
    /\ InFlight = 0
    /\ nEvents = 1
    /\ ~generateBtn.disabled

\* C17: every rejection is handled in the handler that issued the call, and
\* the handler runs to its end: a button is in its loading state only while
\* a call of its handler is outstanding, init() has gone through its last
\* statement once get_config was rejected, the handler that logged a
\* rejection has shown its notification and released its button, and the
\* toggle and the apply button respond again after their failure
RejectionsHandled ==
    /\ initPhase \in {"loading", "ready"}
    /\ (initPhase = "ready" /\ loadedConfig = <<>> /\ ~touched) =>
          /\ VisibilityMatchesMode
          /\ NumberField(inputs.width) # Null
          /\ NumberField(inputs.height) # Null
    /\ generateBtn.loading => previewCalls # <<>>
    /\ setWallpaperBtn.loading => wallpaperCalls # <<>>
    /\ console = <<"Generate preview error:">> =>
          /\ toast \in Notifications("generate_preview") /\ toast.type = "error"
          /\ generateBtn = [loading |-> FALSE, disabled |-> FALSE]
    /\ console = <<"Set wallpaper error:">> =>
          /\ toast \in Notifications("set_wallpaper_cmd") /\ toast.type = "error"
          /\ setWallpaperBtn = [loading |-> FALSE, disabled |-> FALSE]
          /\ nEvents < MaxEvents => ENABLED SetWallpaperClick
    /\ console = <<"Toggle schedule error:">> =>
          /\ toast \in Notifications("toggle_schedule") /\ toast.type = "error"
          /\ nEvents < MaxEvents => ENABLED ToggleSchedule
    /\ console = <<"Save config error:">> =>
          /\ setWallpaperBtn = [loading |-> FALSE, disabled |-> FALSE]
          /\ nEvents < MaxEvents => ENABLED SetWallpaperClick

ApplyFailureHandled ==
    /\ console = <<"Set wallpaper error:">>
    /\ toast.message = "Error: set_wallpaper_cmd failed"
    /\ setWallpaperBtn = [loading |-> FALSE, disabled |-> FALSE]
    /\ wallpaperCalls = <<>>
    /\ nEvents < MaxEvents

\* the integer shown in the percent stat, the text before the sign %
PercentShown == DecimalValue(SubSeq(preview.statPercent, 1, Len(preview.statPercent) - 1))

\* C18: for non-negative elapsed and total, the percent displayed is 0 when
\* total is 0 and otherwise an integer nearest to elapsed / total * 100
\* (1300 of 4160 gives 31, 1000 of 4160 gives 24)
PercentIsNearestInteger ==
    arrival # <<>> =>
        LET elapsed == arrival[1].response.elapsed_weeks
            total == arrival[1].response.total_weeks
            text == preview.statPercent
        IN  /\ Len(text) >= 2
            /\ text[Len(text)] = "%"
            /\ \A k \in 1..(Len(text) - 1) : IsDigit(text[k])
            /\ total = 0 => PercentShown = 0
            /\ total > 0 =>
                  /\ 2 * (100 * elapsed - PercentShown * total) <= total
                  /\ 2 * (PercentShown * total - 100 * elapsed) <= total
            /\ (elapsed = 1300 /\ total = 4160) => PercentShown = 31
            /\ (elapsed = 1000 /\ total = 4160) => PercentShown = 24

PercentOfClaimedExample ==
    /\ arrival # <<>>
    /\ arrival[1].response.elapsed_weeks = 1300
    /\ arrival[1].response.total_weeks = 4160
    /\ PercentShown = 31
    /\ preview.statElapsed = <<"1", ",", "3", "0", "0">>

\* C19: selecting a mode or a theme issues no backend call and leaves the
\* preview on display, hasPreview, the apply control and the form fields as
\* they are; selecting a theme also leaves the mode and the visibility of the
\* field groups as they are
SelectionsAreLocal ==
    [][/\ ((\E m \in Modes : SelectMode(m)) \/ (\E t \in Themes : SelectTheme(t))) =>
             UNCHANGED <<previewCalls, wallpaperCalls, scheduleCalls, preview,
                         hasPreview, setWallpaperBtn, generateBtn, inputs>>
       /\ (\E t \in Themes : SelectTheme(t)) =>
             UNCHANGED <<currentMode, modeTabs, lifeOnlyHidden, monthsOnlyHidden>>]_vars

\* the theme was changed after the apply click, which needs a preview
ThemeChangedPreviewKept ==
    /\ hasPreview
    /\ Len(wallpaperCalls) = 1
    /\ wallpaperCalls[1].request.theme = "dark"
    /\ currentTheme = "sunset"
    /\ themeBtns = {"sunset"}
    /\ previewCalls = <<>>
    /\ preview.src = "data:image/png;base64,iVBORw0A"
    /\ preview.statPercent = <<"2", "4", "%">>

\* C20: a notification stays visible until its own interval has elapsed or
\* the next notification replaces it: when no notification is visible, the
\* last one shown was shown at least one interval ago
NotificationStaysItsInterval ==
    ~toast.show => now >= shownAt + ToastInterval

\* the requests of the calls in flight, in the order the calls were issued
RequestsOf(calls) == [k \in DOMAIN calls |-> calls[k].request]

\* a step leaves the requests in flight as they are, or takes one away (its
\* call has completed), or adds one that holds the mode, the theme and the
\* field values of the moment it is added
requestsKept(before, after) ==
    LET old == RequestsOf(before)
        new == RequestsOf(after)
    IN  \/ new = old
        \/ /\ Len(new) = Len(old) + 1
           /\ SubSeq(new, 1, Len(old)) = old
           /\ new[Len(new)] = buildRequest(currentMode', currentTheme', inputs')
        \/ \E i \in DOMAIN old : new = RemoveAt(old, i)

\* C21: the request passed to generate_preview or set_wallpaper_cmd holds the
\* mode, the theme and the field values of the moment the action was
\* triggered, and no later step alters the request of a call in flight
RequestFixedAtTrigger ==
    [][/\ requestsKept(previewCalls, previewCalls')
       /\ requestsKept(wallpaperCalls, wallpaperCalls')]_vars

RequestOutlivesSelection ==
    /\ Len(previewCalls) = 1
    /\ previewCalls[1].request.mode = "year-end"
    /\ currentMode = "life"
    /\ previewCalls[1].request.width # Null
    /\ previewCalls[1].request.width # NumberField(inputs.width)
    /\ nEvents = 3

\* C22: in every reachable state the mode is one of the three modes and the
\* theme one of the four themes, and exactly one mode tab is active, the tab
\* of the current mode; also after a config without theme or default_mode
ViewStateWellFormed ==
    /\ currentMode \in Modes
    /\ currentTheme \in Themes
    /\ modeTabs = {currentMode}

\* the inputs whose change listener regenerates the preview
AutoGenerateFields == {"dob", "lifespan", "months"}

savedAs(request) ==
    [dob |-> request.dob,
     lifespan |-> request.lifespan,
     theme |-> request.theme,
     width |-> request.width,
     height |-> request.height,
     defaultMode |-> request.mode,
     months |-> request.months]

\* C25: the configuration an apply action passes to save_config is the one
\* it applied: mode, theme, dob, lifespan, months, width and height are those
\* of the request it sent to set_wallpaper_cmd, whatever the user changed
\* while set_wallpaper_cmd was in flight
SavedConfigIsAppliedRequest ==
    \A i \in DOMAIN wallpaperCalls :
        wallpaperCalls[i].saved # <<>> =>
            wallpaperCalls[i].saved[1] = savedAs(wallpaperCalls[i].request)

\* C27: a mode or theme the user selected is changed only by a later user
\* selection; a get_config response that arrives after the selection does
\* not overwrite it.  While get_config is awaited, a mode other than
\* year-end or a theme other than dark is one the user selected.
UserSelectionSurvivesConfig ==
    [][\A config \in Configs :
          LoadConfigResolve(config) =>
             /\ currentMode # "year-end" =>
                   (currentMode' = currentMode /\ modeTabs' = modeTabs)
             /\ currentTheme # "dark" =>
                   (currentTheme' = currentTheme /\ themeBtns' = themeBtns)]_vars

\* C28: whenever no generate_preview, set_wallpaper_cmd or save_config call
\* is outstanding, the generate control is enabled and neither the generate
\* nor the apply control is in the loading state; the step that completes a
\* call releases the control that was disabled for it
ControlsReleasedOnCompletion ==
    /\ []((previewCalls = <<>> /\ wallpaperCalls = <<>>) =>
            /\ ~generateBtn.disabled
            /\ ~generateBtn.loading
            /\ ~setWallpaperBtn.loading)
    /\ [][/\ Len(previewCalls') < Len(previewCalls) =>
                generateBtn' = [loading |-> FALSE, disabled |-> FALSE]
          /\ Len(wallpaperCalls') < Len(wallpaperCalls) =>
                setWallpaperBtn' = [loading |-> FALSE, disabled |-> FALSE]]_vars

AllCallsCompleted ==
    /\ nEvents = 3
    /\ previewSucceeded
    /\ InFlight = 0
    /\ console = <<"Generate preview error:">>
    /\ generateBtn = [loading |-> FALSE, disabled |-> FALSE]
    /\ setWallpaperBtn = [loading |-> FALSE, disabled |-> FALSE]
    /\ toast.type = "error"

\* the change events of the burst (the first event of the session was the
\* click that generated the preview)
BurstEvents == nEvents - 1

\* C24: auto-generation is debounced: a burst of several change events on
\* the date of birth, lifespan and months inputs, hasPreview being true,
\* issues fewer generate_preview calls than there are events
AutoGenerationDebounced ==
    BurstEvents >= 2 => Len(previewCalls) < BurstEvents

\* a text without its commas
WithoutCommas(text) == SelectSeq(text, LAMBDA c : c # ",")

\* the text is the decimal string of n: digits only, no leading zero
IsDecimalStringOf(text, n) ==
    /\ text # <<>>
    /\ \A k \in DOMAIN text : IsDigit(text[k])
    /\ (Len(text) > 1 => text[1] # "0")
    /\ DecimalValue(text) = n

\* C29: for a non-negative integer n, formatNumber(n) is the decimal digits
\* of n with a comma before each complete group of three digits counted from
\* the right, and nowhere else; without the commas it is the decimal string
\* of n (1000 gives "1,000", 3160 gives "3,160", 999 gives "999")
FormatNumberGroupsDigits ==
    arrival # <<>> =>
        LET n == arrival[1].response.remaining_weeks
            text == preview.statRemaining
            L == Len(text)
        IN  /\ IsDecimalStringOf(WithoutCommas(text), n)
            /\ text[1] # ","
            /\ \A j \in 1..L : (text[L + 1 - j] = ",") <=> (j % 4 = 0)
            /\ n = 1000 => text = <<"1", ",", "0", "0", "0">>
            /\ n = 3160 => text = <<"3", ",", "1", "6", "0">>
            /\ n = 999 => text = <<"9", "9", "9">>

FormattedWithTwoCommas ==
    /\ arrival # <<>>
    /\ arrival[1].response.remaining_weeks = 1234567
    /\ preview.statRemaining = <<"1", ",", "2", "3", "4", ",", "5", "6", "7">>
    /\ preview.statElapsed = <<"0">>

\* C26: once every toggle_schedule call has completed, the toggle shows the
\* backend's schedule state: the argument of the last call that succeeded,
\* or the startup value when none has
ToggleMatchesBackend ==
    (initPhase = "ready" /\ scheduleCalls = <<>>) => scheduleToggle = installed

\* C30: the support message is shown at most once per browser session:
\* whatever the number of clicks on the download elements, also several
\* within the delay, at most one support message is ever added to the page,
\* and it is added in the step that stores the flag supportShown
SupportShownOnce ==
    /\ website.added <= 1
    /\ Len(website.messages) <= 1
    /\ website.supportShown <=> (website.added = 1)
    /\ website.downloads <= website.clicks

SupportShownAfterClicks ==
    /\ website.clicks = 3
    /\ website.downloads = 0
    /\ website.added = 1
    /\ website.supportShown
    /\ Len(website.messages) = 1
    /\ website.messages[1].animateIn

\* the asset matches one of the patterns
MatchesOneOf(asset, patterns) ==
    \E p \in DOMAIN patterns : asset.name \in tested[patterns[p]]

\* the place in the priority list of the earliest pattern the asset matches
EarliestPattern(asset, patterns) ==
    CHOOSE p \in DOMAIN patterns :
        /\ asset.name \in tested[patterns[p]]
        /\ \A q \in 1..(p - 1) : asset.name \notin tested[patterns[q]]

\* the k-th asset is the one to choose: no asset matches an earlier pattern
\* than it does, and no asset before it in the array matches the same one
ChosenAsset(assets, patterns, k) ==
    /\ k \in DOMAIN assets
    /\ MatchesOneOf(assets[k], patterns)
    /\ \A h \in DOMAIN assets :
          MatchesOneOf(assets[h], patterns) =>
              \/ EarliestPattern(assets[k], patterns) < EarliestPattern(assets[h], patterns)
              \/ /\ EarliestPattern(assets[k], patterns) = EarliestPattern(assets[h], patterns)
                 /\ k <= h

\* a link is where it has to be after a lookup that returned `returned`
LinkFollowsLookup(link, fallback, returned, patterns) ==
    /\ \/ returned = Null
       \/ \A k \in DOMAIN returned[1] : ~MatchesOneOf(returned[1][k], patterns)
       => link = fallback
    /\ link # fallback =>
          \E k \in DOMAIN returned[1] :
              /\ ChosenAsset(returned[1], patterns, k)
              /\ link = returned[1][k].browser_download_url

\* C31: once the release lookup is over, every CLI and GUI download link is
\* its fixed fallback URL when the lookup failed (fetch or json rejected, or
\* the response was not OK) or no asset matches the platform's patterns; a
\* link that is not its fallback is the browser_download_url of the asset
\* that matches the earliest matching pattern of the platform's priority
\* list.  The links of the page show these URLs: each GUI card, and the CLI
\* button on a platform that was recognised.
DownloadLinksFollowAssets ==
    website.lookup = "done" =>
        /\ \A key \in CliKeys :
              LinkFollowsLookup(website.cliUrls[key], fallbackCliUrls[key],
                                website.assets, cliPatterns(key))
        /\ \A key \in GuiKeys :
              /\ LinkFollowsLookup(website.guiLinks[key].url, fallbackGuiLinks[key].url,
                                   website.assets, guiPatterns(key))
              /\ website.cards[key] # Null
              /\ website.cards[key][1].url = website.guiLinks[key].url
        /\ website.platform # "unknown" =>
              website.cliBtn = Some(website.cliUrls[website.platform])

\* the release lists the .msi installer before the .exe installer, and the
\* Windows card links to the .exe installer, whose pattern comes first
WindowsCardPrefersExe ==
    /\ website.lookup = "done"
    /\ website.assets # Null
    /\ Len(website.assets[1]) = 2
    /\ website.assets[1][1].name = <<"l", "i", "w", "-", "g", "u", "i", "-", "w", "i", "n", "d", "o", "w", "s", ".", "m", "s", "i">>
    /\ website.assets[1][2].name = <<"l", "i", "w", "-", "g", "u", "i", "-", "w", "i", "n", "d", "o", "w", "s", ".", "e", "x", "e">>
    /\ website.cards["windows"] =
           Some([url |-> website.assets[1][2].browser_download_url,
                 label |-> ".exe Installer"])
    /\ website.cards["windows"][1].url # fallbackGuiLinks["windows"].url

====
